---- MODULE Spec2Model ----
(***************************************************************************)
(* Model of the CDP Logger client (client.js): request correlation, the   *)
(* request queue, the connection lifecycle, time synchronization and the  *)
(* sender-tag lookups.                                                     *)
(*                                                                         *)
(* Every handler of the client runs to completion on the JavaScript event *)
(* loop, promise continuations (microtasks) included, so every handler is *)
(* one action.  A handler is written as a function from the state record  *)
(* before it to the state record after it; the action assigns the record  *)
(* to the variables.                                                       *)
(*                                                                         *)
(* Time is in seconds.  The clock advances in steps of two seconds so     *)
(* that roundTripTime / 2 is exact.                                        *)
(***************************************************************************)
EXTENDS Integers, Sequences, FiniteSets, TLC

\* ------------------------------------------------------------------ bounds
MaxReqId == 3
MaxTime == 6
MaxDelay == 2
MaxCloses == 1
MaxQueued == 2
MaxQueueId == 5
MaxFairReqs == 2
MaxConnId == 2
MaxEvReqId == 6
MaxEvCalls == 2
MaxSyncId == 5
MaxResyncReqs == 2
MaxNamesId == 3
MaxErrorId == 4
MaxMalformedId == 3
MaxTranslateId == 5
MaxResyncTime == 14
MaxDisabledTime == 12
MaxVersionId == 4
MaxIdsId == 5
MaxOfflineId == 2
MaxTwiceId == 3
MaxReconnects == 2
MaxReenableTime == 20
MaxStrayId == 3
MaxDataId == 5
MaxDataReqs == 2

Senders == {"A", "B"}
ServerTimestamps == {2000000000}
TagValues == {"t1", "t2"}

\* ------------------------------------------------------- program constants
ResyncInterval == 10
NumSamples == 3
Nano == 1000000000

\* this.reqId before the first request; no request has this id.
InitialReqId == -1

NoReq == InitialReqId

VARIABLES
  reqId,              \* this.reqId
  autoReconnect,      \* this.autoReconnect
  enableTimeSync,     \* this.enableTimeSync
  isOpen,             \* this.isOpen
  queuedRequests,     \* this.queuedRequests: id -> descriptor
  storedPromises,     \* this.storedPromises: id -> handle of the pending result
  nameToId,           \* this.nameToId: name -> id
  idToName,           \* this.idToName: id -> name
  timeDiff,           \* this.timeDiff
  timeReceived,       \* this.timeReceived
  lastTimeRequest,    \* this.lastTimeRequest
  haveSentQueuedReq,  \* this.haveSentQueuedReq
  roundTripTimes,     \* this.roundTripTimes: roundTripTime -> timeDiff sample
  senderTags,         \* this.senderTags: sender -> tags
  pendingSenderTags,  \* this.pendingSenderTags: sender -> sequence of waiters
  ws,                 \* readyState of this.ws
  timers,             \* number of reconnect timers set and not yet fired
  now,                \* Date.now() / 1000
  sent,               \* every frame handed to ws.send, in order
  inflight,           \* frames the server has received and not yet answered
  outcome,            \* id -> state of the promise returned for request id
  settleCalls,        \* id -> number of resolve/reject calls on its handle
  evWait,             \* id -> event query waiting for sender tags
  tagCalls,           \* outcomes of the promises of public getSenderTags calls
  thrown,             \* the last public call threw
  closes,             \* number of close events so far
  disconnected,       \* disconnect() has been called
  kindOf,             \* id -> kind of the request registered under id
  queuedAt,           \* id of a request that was queued -> closes before it
  lastCall,           \* the last call of _timeRequest: when, and whether
                      \* it sent a probe; empty before the first call
  url                 \* this.ws._url: the address the socket connects to

vars == <<reqId, autoReconnect, enableTimeSync, isOpen, queuedRequests,
          storedPromises, nameToId, idToName, timeDiff, timeReceived,
          lastTimeRequest, haveSentQueuedReq, roundTripTimes, senderTags,
          pendingSenderTags, ws, timers, now, sent, inflight, outcome,
          settleCalls, evWait, tagCalls, thrown, closes, disconnected,
          kindOf, queuedAt, lastCall, url>>

\* The state as a record, the form the handlers work on.
State ==
  [reqId |-> reqId, autoReconnect |-> autoReconnect,
   enableTimeSync |-> enableTimeSync, isOpen |-> isOpen,
   queuedRequests |-> queuedRequests, storedPromises |-> storedPromises,
   nameToId |-> nameToId, idToName |-> idToName, timeDiff |-> timeDiff,
   timeReceived |-> timeReceived, lastTimeRequest |-> lastTimeRequest,
   haveSentQueuedReq |-> haveSentQueuedReq, roundTripTimes |-> roundTripTimes,
   senderTags |-> senderTags, pendingSenderTags |-> pendingSenderTags,
   ws |-> ws, timers |-> timers, now |-> now, sent |-> sent,
   inflight |-> inflight, outcome |-> outcome, settleCalls |-> settleCalls,
   evWait |-> evWait, tagCalls |-> tagCalls, thrown |-> FALSE,
   closes |-> closes, disconnected |-> disconnected,
   kindOf |-> kindOf, queuedAt |-> queuedAt, lastCall |-> lastCall,
   url |-> url, deferred |-> <<>>]

\* The variables take the values of the record s, the state after a handler.
Becomes(s) ==
  \E r \in {s} :
    /\ reqId' = r.reqId
    /\ autoReconnect' = r.autoReconnect
    /\ enableTimeSync' = r.enableTimeSync
    /\ isOpen' = r.isOpen
    /\ queuedRequests' = r.queuedRequests
    /\ storedPromises' = r.storedPromises
    /\ nameToId' = r.nameToId
    /\ idToName' = r.idToName
    /\ timeDiff' = r.timeDiff
    /\ timeReceived' = r.timeReceived
    /\ lastTimeRequest' = r.lastTimeRequest
    /\ haveSentQueuedReq' = r.haveSentQueuedReq
    /\ roundTripTimes' = r.roundTripTimes
    /\ senderTags' = r.senderTags
    /\ pendingSenderTags' = r.pendingSenderTags
    /\ ws' = r.ws
    /\ timers' = r.timers
    /\ now' = r.now
    /\ sent' = r.sent
    /\ inflight' = r.inflight
    /\ outcome' = r.outcome
    /\ settleCalls' = r.settleCalls
    /\ evWait' = r.evWait
    /\ tagCalls' = r.tagCalls
    /\ thrown' = r.thrown
    /\ closes' = r.closes
    /\ disconnected' = r.disconnected
    /\ kindOf' = r.kindOf
    /\ queuedAt' = r.queuedAt
    /\ lastCall' = r.lastCall
    /\ url' = r.url

EmptyMap == [x \in {} |-> 0]

\* f without the key k (delete f[k]).
Without(f, k) == [x \in DOMAIN f \ {k} |-> f[x]]

\* f with f[k] = v (assignment to a property of an object).
With(f, k, v) == [x \in DOMAIN f \cup {k} |-> IF x = k THEN v ELSE f[x]]

\* ----------------------------------------------------------------- frames
\* A request frame: the container's messageType and the fields of its body.
Frame(kind, id, sender, cmin, cmax) ==
  [kind |-> kind, requestId |-> id, sender |-> sender,
   criterionMin |-> cmin, criterionMax |-> cmax]

\* The handle stored for a pending result, with what its continuation needs:
\* the send time of a time probe, or the data-point request (forReq, with
\* its arguments) a directory listing was requested for.
Handle(kind, timeSent, forReq, names, startS, endS) ==
  [kind |-> kind, timeSent |-> timeSent, forReq |-> forReq,
   nodeNames |-> names, startS |-> startS, endS |-> endS]

SimpleHandle(kind) == Handle(kind, 0, NoReq, <<>>, 0, 0)

\* A queued descriptor: the kind and the arguments of the request.
Descriptor(kind, names, startS, endS) ==
  [kind |-> kind, nodeNames |-> names, startS |-> startS, endS |-> endS]

\* ws.send(buffer): throws on a socket that is still connecting, hands the
\* frame to the server on an open one, and drops it on a closing or closed
\* one.  After a throw the rest of the handler is skipped.
WsSend(s, frame) ==
  IF s.thrown THEN s
  ELSE IF s.ws = "connecting" THEN [s EXCEPT !.thrown = TRUE]
  ELSE [s EXCEPT
          !.sent = Append(@, [frame |-> frame, open |-> (s.ws = "open")]),
          !.inflight = IF s.ws = "open" THEN @ \cup {frame} ELSE @]

\* this.queuedRequests[id] = descriptor
Enqueue(s, id, d) ==
  [s EXCEPT !.queuedRequests = With(@, id, d),
            !.queuedAt = With(@, id, s.closes)]

\* _getRequestId
GetRequestId(s) == [s EXCEPT !.reqId = @ + 1]

\* The states of a promise.
Pending == [st |-> "pending", by |-> "", val |-> 0]
Resolved(v) == [st |-> "resolved", by |-> "", val |-> v]
Rejected(why) == [st |-> "rejected", by |-> why, val |-> 0]

\* new Promise((resolve, reject) => { this.storedPromises[id] = ... })
Register(s, id, handle) ==
  IF s.thrown THEN s
  ELSE [s EXCEPT
          !.storedPromises = With(@, id, handle),
          !.outcome = With(@, id, Pending),
          !.kindOf = With(@, id, handle.kind),
          !.settleCalls = With(@, id, 0)]


\* ---------------------------------------------------------- send routines
\* _sendTimeRequest
SendTimeRequest(s, id) == WsSend(s, Frame("time", id, "", 0, 0))

\* _sendLoggedNodesRequest
SendLoggedNodesRequest(s, id) == WsSend(s, Frame("logged_nodes", id, "", 0, 0))

\* _sendLogLimitsRequest
SendLogLimitsRequest(s, id) == WsSend(s, Frame("log_limits", id, "", 0, 0))

\* _sendApiVersionRequest
SendApiVersionRequest(s, id) == WsSend(s, Frame("api_version", id, "", 0, 0))

\* _sendEventsRequest: the query goes on the wire as it was built.
SendEventsRequest(s, id, q) == WsSend(s, Frame("events", id, "", q.startS, q.endS))

\* _sendCountEventsRequest
SendCountEventsRequest(s, id, q) ==
  WsSend(s, Frame("countEvents", id, "", q.startS, q.endS))

\* _sendEventSenderTagsRequest: takes a new request id for the frame.
SendEventSenderTagsRequest(s, sender) ==
  LET a == GetRequestId(s)
  IN  WsSend(a, Frame("sender_tags", a.reqId, sender, 0, 0))

\* _sendDataPointsRequest: the time range is translated by timeDiff when
\* time sync is enabled.
SendDataPointsRequest(s, startS, endS, id) ==
  WsSend(s, Frame("node_values", id, "",
                  IF s.enableTimeSync THEN startS - s.timeDiff ELSE startS,
                  IF s.enableTimeSync THEN endS - s.timeDiff ELSE endS))

\* ------------------------------------------------------------- settlement
\* A variant of SettleReject that leaves the handle in the registry.
SettleRejectKeep(s, id, why) ==
  IF id \notin DOMAIN s.storedPromises THEN s
  ELSE [s EXCEPT !.outcome = With(@, id, Rejected(why)),
                 !.settleCalls = With(@, id, @[id] + 1)]

\* reject(error) on the handle stored under id, which leaves the registry
\* (delete this.storedPromises[id]; reject(error)).
SettleReject(s, id, why) ==
  IF id \notin DOMAIN s.storedPromises THEN s
  ELSE [s EXCEPT !.storedPromises = Without(@, id),
                 !.outcome = With(@, id, Rejected(why)),
                 !.settleCalls = With(@, id, @[id] + 1)]

\* rejectRequest of _reqDataPoints
RejectRequest(s, id, why) == SettleReject(s, id, why)

\* A variant of RejectStored that rejects with a message of its own.
RejectStoredPlain(s, id, why) == SettleReject(s, id, "Error")

\* The eError case: the handle stored under id is rejected.  The
\* continuation of a directory listing requested for a data-point request
\* (_requestNodeIds .catch(reject), then rejectRequest) rejects that request
\* too if it is still registered.
\* A variant of the error case that rejects the promise of an id whose
\* result is no longer pending.
RejectStoredLate(s, id, why) ==
  IF id \in DOMAIN s.storedPromises
  THEN LET h == s.storedPromises[id]
           a == SettleReject(s, id, why)
       IN  IF h.kind = "logged_nodes" /\ h.forReq # NoReq
           THEN RejectRequest(a, h.forReq, why)
           ELSE a
  ELSE IF id \in DOMAIN s.outcome
  THEN [s EXCEPT !.outcome = With(@, id, Rejected(why)),
                 !.settleCalls = With(@, id, @[id] + 1)]
  ELSE s

RejectStored(s, id, why) ==
  IF id \notin DOMAIN s.storedPromises THEN s
  ELSE LET h == s.storedPromises[id]
           a == SettleReject(s, id, why)
       IN  IF h.kind = "logged_nodes" /\ h.forReq # NoReq
           THEN RejectRequest(a, h.forReq, why)
           ELSE a

\* ---------------------------------------------------------------- time sync
\* A variant of TimeSyncOn for a client that synchronizes whatever the flag.
TimeSyncAlways(s) == TRUE

\* The guard of the sync cycle: if (!this.enableTimeSync) return, in
\* _timeRequest, _updateTimeDiff, _requestTime and _setTimeDiff, and the
\* condition of _onOpen.
TimeSyncOn(s) == s.enableTimeSync

\* _requestTime: records the time of the request, sends the probe and
\* registers its pending result.
RequestTime(s, id) ==
  IF ~TimeSyncOn(s) THEN s
  ELSE LET a == [s EXCEPT !.lastTimeRequest = s.now]
           b == SendTimeRequest(a, id)
       IN  Register(b, id, Handle("time", s.now, NoReq, <<>>, 0, 0))

\* _updateTimeDiff: one probe; its response continues in _setTimeDiff.
UpdateTimeDiff(s) ==
  IF s.thrown \/ ~TimeSyncOn(s) THEN s
  ELSE LET a == GetRequestId(s)
       IN  RequestTime(a, a.reqId)

\* A variant of TimeRequest that starts no cycle.
TimeRequestNever(s) ==
  [s EXCEPT !.lastCall = <<[at |-> s.now, cycle |-> FALSE]>>]

\* A variant of TimeRequest that starts a cycle at every request.
TimeRequestAlways(s) ==
  LET a == IF ~TimeSyncOn(s) THEN s ELSE UpdateTimeDiff(s)
  IN  [a EXCEPT !.lastCall = <<[at |-> s.now, cycle |-> a.sent # s.sent]>>]

\* _timeRequest: a new cycle when the last probe is more than 10 s old.
TimeRequest(s) ==
  LET a == IF ~TimeSyncOn(s) THEN s
           ELSE IF s.now > s.lastTimeRequest + ResyncInterval
           THEN UpdateTimeDiff(s)
           ELSE s
  IN  [a EXCEPT !.lastCall = <<[at |-> s.now, cycle |-> a.sent # s.sent]>>]

\* ------------------------------------------------------------ data points
\* requestLoggedNodes: the public operation, which _requestNodeIds also
\* calls for a data-point request (forReq) that names an unknown node.
RequestLoggedNodesFor(s, forReq, names, startS, endS) ==
  LET a == TimeRequest(s)
      b == IF a.thrown THEN a ELSE GetRequestId(a)
      id == b.reqId
      c == IF b.thrown THEN b
           ELSE IF ~b.isOpen
           THEN Enqueue(b, id, Descriptor("logged_nodes", <<>>, 0, 0))
           ELSE SendLoggedNodesRequest(b, id)
  IN  Register(c, id, Handle("logged_nodes", 0, forReq, names, startS, endS))

\* parseIds of _requestNodeIds, followed by what _reqDataPoints chained to
\* it: the data-point frame is sent from a promise continuation, after the
\* synchronous part of the handler, or the request is rejected naming the
\* first unknown node.
Range(q) == {q[i] : i \in DOMAIN q}

\* A variant of FirstMissing that names the first node of the request.
FirstName(s, names) == names[1]

FirstMissing(s, names) ==
  names[CHOOSE i \in DOMAIN names :
          /\ names[i] \notin DOMAIN s.nameToId
          /\ \A j \in 1..(i - 1) : names[j] \in DOMAIN s.nameToId]

Defer(s, id, startS, endS) ==
  [s EXCEPT !.deferred = Append(@, [id |-> id, startS |-> startS, endS |-> endS])]

ParseIds(s, names, startS, endS, id) ==
  IF Range(names) \subseteq DOMAIN s.nameToId
  THEN Defer(s, id, startS, endS)
  ELSE RejectRequest(s, id, "Node with name " \o FirstMissing(s, names)
                              \o " does not exist.")

\* _requestNodeIds
RequestNodeIds(s, names, startS, endS, id) ==
  IF Range(names) \subseteq DOMAIN s.nameToId
  THEN ParseIds(s, names, startS, endS, id)
  ELSE RequestLoggedNodesFor(s, id, names, startS, endS)

\* _reqDataPoints
\* A variant of _reqDataPoints that rejects the empty range as well.
ReqDataPointsStrict(s, names, startS, endS, id) ==
  IF startS < endS
  THEN RequestNodeIds(s, names, startS, endS, id)
  ELSE RejectRequest(s, id, "InvalidRequestError")

ReqDataPoints(s, names, startS, endS, id) ==
  IF ~(endS < startS)
  THEN RequestNodeIds(s, names, startS, endS, id)
  ELSE RejectRequest(s, id, "InvalidRequestError")

\* The promise continuations that send data-point frames, in the order in
\* which they were queued.
RECURSIVE RunDeferred(_)
RunDeferred(s) ==
  IF s.deferred = <<>> THEN s
  ELSE LET d == Head(s.deferred)
           a == [s EXCEPT !.deferred = Tail(@)]
       IN  RunDeferred(SendDataPointsRequest(a, d.startS, d.endS, d.id))

\* ------------------------------------------------------------------ queue
\* The keys of an object in for-in order: integer keys ascending.
RECURSIVE KeysAscending(_)
KeysAscending(S) ==
  IF S = {} THEN <<>>
  ELSE LET m == CHOOSE x \in S : \A y \in S : x <= y
       IN  <<m>> \o KeysAscending(S \ {m})

\* The body of the loop of _sendQueuedRequests for one queued descriptor.
\* A descriptor of a kind the loop has no branch for is passed over.
SendQueued(s, id) ==
  LET req == s.queuedRequests[id]
  IN  CASE req.kind = "logged_nodes" -> SendLoggedNodesRequest(s, id)
        [] req.kind = "log_limits" -> SendLogLimitsRequest(s, id)
        [] req.kind = "node_values" ->
             ReqDataPoints(s, req.nodeNames, req.startS, req.endS, id)
        [] req.kind = "api_version" -> SendApiVersionRequest(s, id)
        [] req.kind = "events" -> SendEventsRequest(s, id, req)
        [] OTHER -> s

RECURSIVE SendQueuedFrom(_, _)
SendQueuedFrom(s, ids) ==
  IF ids = <<>> THEN s
  ELSE SendQueuedFrom(SendQueued(s, Head(ids)), Tail(ids))

\* _sendQueuedRequests
SendQueuedRequests(s) ==
  LET a == SendQueuedFrom(s, KeysAscending(DOMAIN s.queuedRequests))
  IN  [a EXCEPT !.queuedRequests = EmptyMap]

\* --------------------------------------------------------- time sync, cont.
\* A variant of MinKey that selects the largest key.
MaxKey(f) == CHOOSE k \in DOMAIN f : \A j \in DOMAIN f : j <= k

\* Math.min(...Object.keys(roundTripTimes).map(Number))
MinKey(f) == CHOOSE k \in DOMAIN f : \A j \in DOMAIN f : k <= j

\* A variant of _setTimeDiff that dispatches the queue at every completed
\* cycle.
SetTimeDiffEvery(s, timestamp, timeSent) ==
  IF ~TimeSyncOn(s) THEN s
  ELSE LET clientTime == s.timeReceived
           roundTripTime == clientTime - timeSent
           serverTime == (timestamp \div Nano) + (roundTripTime \div 2)
           sample == clientTime - serverTime
           a == [s EXCEPT !.roundTripTimes = With(@, roundTripTime, sample)]
       IN  IF Cardinality(DOMAIN a.roundTripTimes) # NumSamples
           THEN UpdateTimeDiff(a)
           ELSE LET b == [a EXCEPT !.timeDiff = a.roundTripTimes[MinKey(a.roundTripTimes)],
                                   !.roundTripTimes = EmptyMap]
                IN  [SendQueuedRequests(b) EXCEPT !.haveSentQueuedReq = TRUE]

\* _setTimeDiff: the continuation of a time probe's response.
SetTimeDiff(s, timestamp, timeSent) ==
  IF ~TimeSyncOn(s) THEN s
  ELSE LET clientTime == s.timeReceived
           roundTripTime == clientTime - timeSent
           serverTime == (timestamp \div Nano) + (roundTripTime \div 2)
           sample == clientTime - serverTime
           a == [s EXCEPT !.roundTripTimes = With(@, roundTripTime, sample)]
       IN  IF Cardinality(DOMAIN a.roundTripTimes) # NumSamples
           THEN UpdateTimeDiff(a)
           ELSE LET b == [a EXCEPT !.timeDiff = a.roundTripTimes[MinKey(a.roundTripTimes)],
                                   !.roundTripTimes = EmptyMap]
                IN  IF ~b.haveSentQueuedReq
                    THEN [SendQueuedRequests(b) EXCEPT !.haveSentQueuedReq = TRUE]
                    ELSE b

\* ------------------------------------------------------------ sender tags
NoTags == "none"

Waiter(type, n) == [type |-> type, n |-> n]

\* The events with the tags of the cache attached (evt.tags = senderTags[..]).
AttachTags(s, events) ==
  [i \in DOMAIN events |->
     [sender |-> events[i].sender,
      tags |-> IF events[i].sender \in DOMAIN s.senderTags
               THEN s.senderTags[events[i].sender] ELSE NoTags]]

\* A variant of GetSenderTagsFor in which every waiter for an uncached
\* sender sends a lookup of its own.
GetSenderTagsEach(s, sender, w) ==
  IF s.thrown THEN s
  ELSE IF sender \in DOMAIN s.senderTags
  THEN IF w.type = "pub"
       THEN [s EXCEPT !.tagCalls = Append(@, Resolved(s.senderTags[sender]))]
       ELSE s
  ELSE LET b == IF sender \notin DOMAIN s.pendingSenderTags
                THEN [s EXCEPT !.pendingSenderTags = With(@, sender, <<>>)]
                ELSE s
           a == SendEventSenderTagsRequest(b, sender)
       IN  IF a.thrown THEN a
           ELSE [a EXCEPT
                   !.pendingSenderTags = With(@, sender, Append(@[sender], w)),
                   !.tagCalls = IF w.type = "pub" THEN Append(@, Pending) ELSE @]

\* getSenderTags, for the waiter w: a public caller or an event query.
\* A cached sender resolves at once; the first waiter for a sender sends the
\* lookup, the later ones share it.
GetSenderTagsFor(s, sender, w) ==
  IF s.thrown THEN s
  ELSE IF sender \in DOMAIN s.senderTags
  THEN IF w.type = "pub"
       THEN [s EXCEPT !.tagCalls = Append(@, Resolved(s.senderTags[sender]))]
       ELSE s
  ELSE LET a == IF sender \notin DOMAIN s.pendingSenderTags
                THEN SendEventSenderTagsRequest(
                       [s EXCEPT !.pendingSenderTags = With(@, sender, <<>>)],
                       sender)
                ELSE s
       IN  IF a.thrown THEN a
           ELSE [a EXCEPT
                   !.pendingSenderTags = With(@, sender, Append(@[sender], w)),
                   !.tagCalls = IF w.type = "pub" THEN Append(@, Pending) ELSE @]

\* The distinct senders of the events that have no cached tags, in the order
\* of their first event (Array.from(new Set(...))).
RECURSIVE MissingSenders(_, _, _)
MissingSenders(s, events, seen) ==
  IF events = <<>> THEN <<>>
  ELSE LET x == Head(events).sender
       IN  IF x \in DOMAIN s.senderTags \/ x \in seen
           THEN MissingSenders(s, Tail(events), seen)
           ELSE <<x>> \o MissingSenders(s, Tail(events), seen \cup {x})

RECURSIVE GetSenderTagsAll(_, _, _)
GetSenderTagsAll(s, senders, id) ==
  IF senders = <<>> THEN s
  ELSE GetSenderTagsAll(GetSenderTagsFor(s, Head(senders), Waiter("ev", id)),
                        Tail(senders), id)

\* A variant of EventsThen that resolves without waiting for the tags.
EventsThenNow(s, id, events) ==
  [s EXCEPT !.outcome = With(@, id, Resolved(events))]

\* The continuation requestEvents chains to its pending result: resolve with
\* the events if every sender is cached, else wait for the tags of the
\* missing senders.
EventsThen(s, id, events) ==
  LET missing == MissingSenders(s, events, {})
  IN  IF missing = <<>>
      THEN [s EXCEPT !.outcome = With(@, id, Resolved(events))]
      ELSE [GetSenderTagsAll(s, missing, id) EXCEPT
              !.evWait = With(@, id, [events |-> events, missing |-> Range(missing)])]

\* The loop of the eEventsResponse case over the events: cached tags are
\* attached, and a lookup is sent for an event whose sender is not cached.
RECURSIVE EventsLoop(_, _)
EventsLoop(s, events) ==
  IF events = <<>> THEN s
  ELSE LET x == Head(events).sender
       IN  EventsLoop(IF x \in DOMAIN s.senderTags THEN s
                      ELSE SendEventSenderTagsRequest(s, x),
                      Tail(events))

\* A waiter of pendingSenderTags[sender] is resolved.
ResolveWaiter(s, sender, w) ==
  IF w.type = "pub"
  THEN [s EXCEPT !.tagCalls[w.n] = Resolved(s.senderTags[sender])]
  ELSE IF w.n \in DOMAIN s.evWait
  THEN [s EXCEPT !.evWait[w.n].missing = @ \ {sender}]
  ELSE s

\* A waiter of pendingSenderTags[sender] is rejected: Promise.all rejects the
\* event query that waits on it.
RejectWaiter(s, w, why) ==
  IF w.type = "pub"
  THEN [s EXCEPT !.tagCalls[w.n] = Rejected(why)]
  ELSE IF w.n \in DOMAIN s.evWait
  THEN [s EXCEPT !.evWait = Without(@, w.n),
                 !.outcome = With(@, w.n, Rejected(why))]
  ELSE s

RECURSIVE ResolveWaiters(_, _, _)
ResolveWaiters(s, sender, waiters) ==
  IF waiters = <<>> THEN s
  ELSE ResolveWaiters(ResolveWaiter(s, sender, Head(waiters)), sender, Tail(waiters))

RECURSIVE RejectWaiters(_, _, _)
RejectWaiters(s, waiters, why) ==
  IF waiters = <<>> THEN s
  ELSE RejectWaiters(RejectWaiter(s, Head(waiters), why), Tail(waiters), why)

\* The event queries whose senders have all been resolved: the continuation
\* of Promise.all attaches the cached tags and resolves the query.
RECURSIVE FinishEvents(_)
FinishEvents(s) ==
  LET done == {i \in DOMAIN s.evWait : s.evWait[i].missing = {}}
  IN  IF done = {} THEN s
      ELSE LET i == CHOOSE x \in done : \A y \in done : x <= y
           IN  FinishEvents(
                 [s EXCEPT !.outcome = With(@, i, Resolved(AttachTags(s, s.evWait[i].events))),
                           !.evWait = Without(@, i)])

\* The eEventSenderTagsResponse case, for one sender of the mapping.
StoreSenderTags(s, sender, tags) ==
  LET a == [s EXCEPT !.senderTags = With(@, sender, tags)]
  IN  IF sender \in DOMAIN a.pendingSenderTags
      THEN [ResolveWaiters(a, sender, a.pendingSenderTags[sender]) EXCEPT
              !.pendingSenderTags = Without(@, sender)]
      ELSE a

\* --------------------------------------------------------------- responses
\* A decoded container: the message type and the fields of its body.
Response(type, id) ==
  [messageType |-> type, requestId |-> id, timestamp |-> 0, dir |-> EmptyMap,
   criterionMin |-> 0, criterionMax |-> 0, version |-> <<0, 0>>,
   criterion |-> <<>>, events |-> <<>>, count |-> 0, sender |-> "",
   tags |-> "", errorMessage |-> ""]

\* resolve(value) on the handle stored under id, which leaves the registry.
Unstore(s, id) ==
  [s EXCEPT !.storedPromises = Without(@, id),
            !.settleCalls = With(@, id, @[id] + 1)]

SettleResolve(s, id, v) ==
  [Unstore(s, id) EXCEPT !.outcome = With(@, id, Resolved(v))]

\* The inverse of a directory: idToName of nameToId.
Inverse(dir) ==
  [i \in {dir[n] : n \in DOMAIN dir} |-> CHOOSE n \in DOMAIN dir : dir[n] = i]

\* A variant of ParseFloat that rounds up to a whole number (Math.ceil).
ParseFloatCeil(version) ==
  (version[1] + IF version[2] > 0 THEN 1 ELSE 0) * 10

\* parseFloat of a version string "major.minor...", in tenths.
ParseFloat(version) == version[1] * 10 + version[2]

MinVersion == 30

\* The timestamps of a data response translated into the client's time.
\* A variant of the timestamps' translation that returns the server's values.
TranslateRaw(s, criterion) == criterion

Translate(s, criterion) ==
  [i \in DOMAIN criterion |->
     IF s.enableTimeSync THEN criterion[i] + s.timeDiff ELSE criterion[i]]

\* A variant of TranslateLimit that leaves the limit in the server's time.
TranslateLimitRaw(s, v) == v

\* A limit of a log-limits response translated into the client's time
\* (criterionMin += this.timeDiff) when time sync is enabled.
TranslateLimit(s, v) == IF s.enableTimeSync THEN v + s.timeDiff ELSE v

\* _parseMessage, with the continuations that the settled promise runs.
\* A variant of the directory's update that merges the listing into the
\* directory.
MergeDirectory(s, dir) ==
  LET merged == [n \in DOMAIN dir \cup DOMAIN s.nameToId |->
                   IF n \in DOMAIN dir THEN dir[n] ELSE s.nameToId[n]]
  IN  [s EXCEPT !.nameToId = merged, !.idToName = Inverse(merged)]

\* eSignalInfoResponse: both maps are emptied and filled from the listing.
ReplaceDirectory(s, dir) ==
  [s EXCEPT !.nameToId = dir, !.idToName = Inverse(dir)]

ParseMessage(s, data) ==
  LET id == data.requestId
      stored == id \in DOMAIN s.storedPromises
      h == s.storedPromises[id]
  IN  CASE data.messageType = "error" ->
             RejectStored(s, id, data.errorMessage)
        [] data.messageType = "time" ->
             LET a == [s EXCEPT !.timeReceived = s.now]
             IN  IF stored
                 THEN RunDeferred(SetTimeDiff(SettleResolve(a, id, data.timestamp),
                                              data.timestamp, h.timeSent))
                 ELSE a
        [] data.messageType = "logged_nodes" ->
             LET a == ReplaceDirectory(s, data.dir)
             IN  IF stored
                 THEN LET b == SettleResolve(a, id, DOMAIN data.dir)
                      IN  IF h.forReq # NoReq
                          THEN RunDeferred(ParseIds(b, h.nodeNames, h.startS,
                                                    h.endS, h.forReq))
                          ELSE b
                 ELSE a
        [] data.messageType = "log_limits" ->
             LET lo == TranslateLimit(s, data.criterionMin)
                 hi == TranslateLimit(s, data.criterionMax)
             IN  IF stored THEN SettleResolve(s, id, <<lo, hi>>) ELSE s
        [] data.messageType = "api_version" ->
             IF ~stored THEN s
             ELSE IF ParseFloat(data.version) < MinVersion
             THEN SettleReject(s, id, "CDP version needs to be 4.3 or newer.")
             ELSE SettleResolve(s, id, data.version)
        [] data.messageType = "node_values" ->
             IF stored THEN SettleResolve(s, id, Translate(s, data.criterion))
             ELSE s
        [] data.messageType = "events" ->
             LET a == EventsLoop(s, data.events)
                 evs == AttachTags(s, data.events)
             IN  IF stored THEN EventsThen(Unstore(a, id), id, evs) ELSE a
        [] data.messageType = "countEvents" ->
             IF stored THEN SettleResolve(s, id, data.count) ELSE s
        [] data.messageType = "sender_tags" ->
             FinishEvents(StoreSenderTags(s, data.sender, data.tags))
        [] OTHER -> s

\* ------------------------------------------------------- public operations
\* requestApiVersion, requestLoggedNodes and requestLogLimits: the same body
\* with the descriptor and the send routine of the kind.
SendOfKind(s, kind, id) ==
  CASE kind = "api_version" -> SendApiVersionRequest(s, id)
    [] kind = "logged_nodes" -> SendLoggedNodesRequest(s, id)
    [] kind = "log_limits" -> SendLogLimitsRequest(s, id)

PublicRequest(s, kind) ==
  LET a == TimeRequest(s)
      b == IF a.thrown THEN a ELSE GetRequestId(a)
      id == b.reqId
      c == IF b.thrown THEN b
           ELSE IF ~b.isOpen
           THEN Enqueue(b, id, Descriptor(kind, <<>>, 0, 0))
           ELSE SendOfKind(b, kind, id)
  IN  Register(c, id, SimpleHandle(kind))

\* requestDataPoints
DoRequestDataPoints(s, names, startS, endS) ==
  LET a == TimeRequest(s)
      b == IF a.thrown THEN a ELSE GetRequestId(a)
      id == b.reqId
      c == Register(b, id, Handle("node_values", 0, NoReq, names, startS, endS))
  IN  IF c.thrown THEN c
      ELSE IF ~c.isOpen
      THEN Enqueue(c, id, Descriptor("node_values", names, startS, endS))
      ELSE RunDeferred(ReqDataPoints(c, names, startS, endS, id))

\* _buildEventQuery: validates the query (and throws on a malformed one) and
\* copies the fields given.
BuildEventQuery(s, query) ==
  IF s.thrown \/ query.valid THEN s ELSE [s EXCEPT !.thrown = TRUE]

\* requestEvents and countEvents
DoEventQuery(s, kind, query) ==
  LET a == TimeRequest(s)
      b == IF a.thrown THEN a ELSE GetRequestId(a)
      id == b.reqId
      c == BuildEventQuery(b, query)
      d == IF c.thrown THEN c
           ELSE IF ~c.isOpen
           THEN Enqueue(c, id, Descriptor(kind, <<>>, query.startS, query.endS))
           ELSE IF kind = "events" THEN SendEventsRequest(c, id, query)
           ELSE SendCountEventsRequest(c, id, query)
  IN  Register(d, id, SimpleHandle(kind))

\* The sweep of the registry: every stored handle is rejected and the
\* registry is emptied.
RECURSIVE RejectAll(_, _, _)
RejectAll(s, ids, why) ==
  IF ids = <<>> THEN s
  ELSE RejectAll(SettleReject(s, Head(ids), why), Tail(ids), why)

SweepRegistry(s, why) ==
  [RejectAll(s, KeysAscending(DOMAIN s.storedPromises), why) EXCEPT
     !.storedPromises = EmptyMap]

\* setEnableTimeSync
DoSetEnableTimeSync(s, enable) ==
  LET a == [s EXCEPT !.enableTimeSync = enable]
  IN  IF ~enable THEN SweepRegistry(a, "Time sync disabled") ELSE a

\* _cleanupQueuedRequests
CleanupQueuedRequests(s) ==
  [SweepRegistry(s, "Connection was closed") EXCEPT !.queuedRequests = EmptyMap]

\* A variant of WsClose that throws on a socket that is closing or closed.
WsCloseStrict(s) ==
  IF s.ws \in {"open", "connecting"} THEN [s EXCEPT !.ws = "closing"]
  ELSE [s EXCEPT !.thrown = TRUE]

\* ws.close(): an open or connecting socket starts closing and its close
\* event follows; on a closing or closed socket nothing happens.
WsClose(s) ==
  IF s.ws \in {"open", "connecting"} THEN [s EXCEPT !.ws = "closing"] ELSE s

\* disconnect
DoDisconnect(s) ==
  LET a == [s EXCEPT !.autoReconnect = FALSE, !.disconnected = TRUE]
      b == CleanupQueuedRequests(a)
  IN  WsClose([b EXCEPT !.isOpen = FALSE])

\* ---------------------------------------------------------------- handlers
\* The address the constructor connects to: the endpoint given, with the
\* scheme in front.
Endpoint == "ws://127.0.0.1:17000"

\* _connect(url): the address of the new socket (ws._url = url).
Connect(address) == address

\* _onOpen
DoOnOpen(s) ==
  LET a == [s EXCEPT !.ws = "open", !.isOpen = TRUE]
      b == IF TimeSyncOn(a) THEN UpdateTimeDiff(a) ELSE a
  IN  [b EXCEPT !.lastTimeRequest = s.now]

RECURSIVE RejectPendingTags(_, _, _)
RejectPendingTags(s, senders, why) ==
  IF senders = {} THEN s
  ELSE LET x == CHOOSE y \in senders : TRUE
       IN  RejectPendingTags(
             [RejectWaiters(s, s.pendingSenderTags[x], why) EXCEPT
                !.pendingSenderTags = Without(@, x)],
             senders \ {x}, why)

\* A variant of DoOnError that schedules a reconnect of its own.
DoOnErrorRetry(s, why) ==
  LET a == SweepRegistry(s, why)
      b == [a EXCEPT !.queuedRequests = EmptyMap, !.timers = @ + 1]
  IN  RejectPendingTags(b, DOMAIN b.pendingSenderTags, why)

\* A variant of DoOnError that leaves the waiters for sender tags alone.
DoOnErrorStored(s, why) ==
  [SweepRegistry(s, why) EXCEPT !.queuedRequests = EmptyMap]

\* _onError
DoOnError(s, why) ==
  LET a == SweepRegistry(s, why)
      b == [a EXCEPT !.queuedRequests = EmptyMap]
  IN  RejectPendingTags(b, DOMAIN b.pendingSenderTags, why)

\* A variant of DoOnClose that gives up after the first close.
DoOnCloseOnce(s) ==
  LET a == [s EXCEPT !.isOpen = FALSE]
  IN  IF ~a.autoReconnect \/ a.closes > 1
      THEN DoOnError(a, "Connection was closed")
      ELSE [a EXCEPT !.timers = @ + 1]

\* _onClose: the sweep of _onError without auto-reconnect, else a timer that
\* connects again.
DoOnClose(s) ==
  LET a == [s EXCEPT !.isOpen = FALSE]
  IN  IF ~a.autoReconnect
      THEN DoOnError(a, "Connection was closed")
      ELSE [a EXCEPT !.timers = @ + 1]

\* A variant of DoReconnect that starts the ids afresh.
DoReconnectReset(s) ==
  [s EXCEPT !.timers = @ - 1, !.ws = "connecting", !.url = Connect(s.url),
            !.reqId = InitialReqId]

\* The callback of the timer of _onClose: this.ws = this._connect(url).
DoReconnect(s) ==
  [s EXCEPT !.timers = @ - 1, !.ws = "connecting", !.url = Connect(s.url)]

\* ------------------------------------------------------------- environment
\* What the caller passes and what the server answers.
TimeRanges == {<<2, 4>>, <<4, 2>>}
Dirs == {EmptyMap, [n \in {"a"} |-> 0]}
Versions == {<<3, 0>>}
Event(sender) == [sender |-> sender]
EventBatches == {<<>>, <<Event("A")>>, <<Event("A"), Event("B")>>,
                 <<Event("A"), Event("A"), Event("B"), Event("B")>>}

\* The answers of the server to a request frame: an error frame or the
\* response of the frame's kind.
Answers(f) ==
  LET r == Response(f.kind, f.requestId)
  IN  {[Response("error", f.requestId) EXCEPT !.errorMessage = "err"]} \cup
      CASE f.kind = "time" -> {[r EXCEPT !.timestamp = t] : t \in ServerTimestamps}
        [] f.kind = "logged_nodes" -> {[r EXCEPT !.dir = d] : d \in Dirs}
        [] f.kind = "log_limits" -> {[r EXCEPT !.criterionMin = 1, !.criterionMax = 5]}
        [] f.kind = "api_version" -> {[r EXCEPT !.version = v] : v \in Versions}
        [] f.kind = "node_values" -> {[r EXCEPT !.criterion = <<f.criterionMin>>]}
        [] f.kind = "events" -> {[r EXCEPT !.events = e] : e \in EventBatches}
        [] f.kind = "countEvents" -> {[r EXCEPT !.count = 1]}
        [] f.kind = "sender_tags" ->
             {[r EXCEPT !.sender = f.sender, !.tags = g] : g \in TagValues}

\* ------------------------------------------------------------------ actions
Init ==
  /\ reqId = InitialReqId
  /\ autoReconnect \in BOOLEAN
  /\ enableTimeSync = TRUE
  /\ isOpen = FALSE
  /\ queuedRequests = EmptyMap
  /\ storedPromises = EmptyMap
  /\ nameToId = EmptyMap
  /\ idToName = EmptyMap
  /\ timeDiff = 0
  /\ timeReceived = 0
  /\ lastTimeRequest = 0
  /\ haveSentQueuedReq = FALSE
  /\ roundTripTimes = EmptyMap
  /\ senderTags = EmptyMap
  /\ pendingSenderTags = EmptyMap
  /\ ws = "connecting"
  /\ timers = 0
  /\ now = 0
  /\ sent = <<>>
  /\ inflight = {}
  /\ outcome = EmptyMap
  /\ settleCalls = EmptyMap
  /\ evWait = EmptyMap
  /\ tagCalls = <<>>
  /\ thrown = FALSE
  /\ closes = 0
  /\ disconnected = FALSE
  /\ kindOf = EmptyMap
  /\ queuedAt = EmptyMap
  /\ lastCall = <<>>
  /\ url = Connect(Endpoint)

RequestApiVersion == Becomes(PublicRequest(State, "api_version"))

RequestLoggedNodes == Becomes(PublicRequest(State, "logged_nodes"))

RequestLogLimits == Becomes(PublicRequest(State, "log_limits"))

RequestDataPoints(names, startS, endS) ==
  Becomes(DoRequestDataPoints(State, names, startS, endS))

RequestEvents(query) == Becomes(DoEventQuery(State, "events", query))

CountEvents(query) == Becomes(DoEventQuery(State, "countEvents", query))

GetSenderTags(sender) ==
  Becomes(GetSenderTagsFor(State, sender, Waiter("pub", Len(tagCalls) + 1)))

SetEnableTimeSync(enable) == Becomes(DoSetEnableTimeSync(State, enable))

Disconnect == Becomes(DoDisconnect(State))

\* The socket opens.
OnOpen ==
  /\ ws = "connecting"
  /\ Becomes(DoOnOpen(State))

\* The socket reports an error; it is on its way to closing.
OnError ==
  /\ ws \in {"connecting", "open"}
  /\ Becomes(DoOnError([State EXCEPT !.ws = "closing"], "WS error"))

\* The close event of the socket: what the server has not answered is lost.
OnClose ==
  Becomes(DoOnClose([State EXCEPT !.ws = "closed", !.inflight = {},
                                  !.closes = @ + 1]))

\* The connection is lost, or the attempt to connect fails.
ConnectionLost ==
  /\ ws \in {"connecting", "open"}
  /\ OnClose

\* A socket that was closing has closed.
Closed ==
  /\ ws = "closing"
  /\ OnClose

\* The reconnect timer fires.
ReconnectTimer ==
  /\ timers > 0
  /\ Becomes(DoReconnect(State))

\* The server answers a frame it has received; the answer arrives delay
\* seconds after the last event.
Deliver(f, data, delay) ==
  /\ ws = "open"
  /\ f \in inflight
  /\ Becomes(ParseMessage([State EXCEPT !.inflight = @ \ {f}, !.now = @ + delay],
                          data))

\* The delays after which the answer to a frame may arrive: only the answer
\* to a time probe is timed.
Delays(f) == IF f.kind = "time" THEN {2 * k : k \in 0..MaxDelay} ELSE {0}

\* ---------------------------------------------------------- specifications
\* The registry: requests of several kinds answered in any order, and the
\* sweeps of the registry, on a client without auto-reconnect.
Bounded == reqId <= MaxReqId /\ now <= MaxTime

\* The caller uses the client while its socket is connecting or open.
Live == ws \in {"connecting", "open"}

InitRegistry == Init /\ autoReconnect = FALSE

Next ==
  \/ Live /\ RequestApiVersion /\ Bounded'
  \/ Live /\ \E r \in TimeRanges : RequestDataPoints(<<"a">>, r[1], r[2]) /\ Bounded'
  \/ Live /\ SetEnableTimeSync(FALSE) /\ Bounded'
  \/ Disconnect /\ Bounded'
  \/ OnOpen /\ Bounded'
  \/ OnError /\ Bounded'
  \/ ConnectionLost /\ Bounded'
  \/ Closed /\ Bounded'
  \/ \E f \in inflight : \E d \in Answers(f) : \E w \in Delays(f) :
       Deliver(f, d, w) /\ Bounded'

Spec == InitRegistry /\ [][Next]_vars

\* The queue: requests of every kind issued before the socket opens, with
\* time sync enabled or disabled by the caller, and the flush of the queue.
BoundedQueue == reqId <= MaxQueueId /\ now <= MaxTime

Queueing == ws = "connecting" /\ reqId + 1 < MaxQueued

ValidQuery == [valid |-> TRUE, startS |-> 2, endS |-> 4]

NextQueue ==
  \/ Queueing /\ RequestApiVersion
  \/ Queueing /\ RequestLoggedNodes
  \/ Queueing /\ RequestLogLimits
  \/ Queueing /\ \E r \in TimeRanges : RequestDataPoints(<<"a">>, r[1], r[2])
  \/ Queueing /\ RequestEvents(ValidQuery)
  \/ Queueing /\ CountEvents(ValidQuery)
  \/ ws = "connecting" /\ enableTimeSync /\ SetEnableTimeSync(FALSE)
  \/ OnOpen /\ BoundedQueue'
  \/ \E f \in inflight : \E d \in Answers(f) : \E w \in Delays(f) :
       Deliver(f, d, w) /\ BoundedQueue'

SpecQueue == InitRegistry /\ [][NextQueue]_vars

\* The connection: unwanted closes followed by automatic reconnects, and
\* disconnect() at any moment.
InitConn == Init /\ autoReconnect = TRUE

NextConn ==
  \/ Live /\ reqId < MaxConnId /\ RequestApiVersion
  \/ Disconnect
  \/ OnOpen /\ reqId < MaxConnId
  \/ closes < MaxCloses /\ ConnectionLost
  \/ Closed
  \/ ReconnectTimer
  \/ \E f \in inflight : \E d \in Answers(f) :
       reqId < MaxConnId /\ Deliver(f, d, 0)

SpecConn == InitConn /\ [][NextConn]_vars

\* Fair executions on a friendly network: the server answers every frame it
\* receives with the response of the frame's kind, the round trips of the
\* probes differ so that every sync cycle completes, connection attempts
\* succeed and timers fire.  The connection is lost at most MaxCloses times
\* and the caller issues at most MaxFairReqs requests.
FairAnswers(f) == {d \in Answers(f) : d.messageType # "error"}

FairDelay(f) ==
  IF f.kind = "time" /\ f.requestId \in DOMAIN storedPromises
  THEN LET fresh == {w \in Delays(f) :
                      now + w - storedPromises[f.requestId].timeSent
                        \notin DOMAIN roundTripTimes}
       IN  CHOOSE w \in fresh : \A v \in fresh : w <= v
  ELSE 0

Issued == Cardinality({i \in DOMAIN kindOf : kindOf[i] # "time"})

FairDeliver ==
  \E f \in inflight : \E d \in FairAnswers(f) : Deliver(f, d, FairDelay(f))

NextFair ==
  \/ Issued < MaxFairReqs /\ RequestApiVersion
  \/ OnOpen
  \/ closes < MaxCloses /\ ConnectionLost
  \/ ReconnectTimer
  \/ FairDeliver

Fairness ==
  /\ WF_vars(OnOpen)
  /\ WF_vars(ReconnectTimer)
  /\ WF_vars(FairDeliver)

FairSpec == InitConn /\ [][NextFair]_vars /\ Fairness

\* The events: event queries and public sender-tag lookups on an open
\* socket, answered in any order.  The caller has disabled time sync before
\* the socket opens, so that no probe is under way.
BoundedEvents == reqId <= MaxEvReqId

EvQueries == Cardinality({i \in DOMAIN kindOf : kindOf[i] = "events"})

\* The caller's operations so far: event queries and public lookups.
EvCalls == EvQueries + Len(tagCalls)

NextEvents ==
  \/ ws = "connecting" /\ enableTimeSync /\ SetEnableTimeSync(FALSE)
  \/ ~enableTimeSync /\ OnOpen
  \/ ws = "open" /\ EvCalls < MaxEvCalls
       /\ RequestEvents(ValidQuery) /\ BoundedEvents'
  \/ ws = "open" /\ EvCalls < MaxEvCalls
       /\ \E x \in Senders : GetSenderTags(x) /\ BoundedEvents'
  \/ \E f \in inflight : \E d \in Answers(f) :
       Deliver(f, d, 0) /\ BoundedEvents'

SpecEvents == InitRegistry /\ [][NextEvents]_vars

\* The sync cycle on one connection: the probes are answered after any
\* delays and with any of the server's timestamps, in nanoseconds.
BoundedSync == reqId <= MaxSyncId /\ now <= MaxTime

SyncTimestamps == {Nano, 2 * Nano}

SyncAnswers(f) ==
  IF f.kind = "time"
  THEN {[Response("time", f.requestId) EXCEPT !.timestamp = t] :
          t \in SyncTimestamps}
  ELSE Answers(f)

NextSync ==
  \/ OnOpen /\ BoundedSync'
  \/ \E f \in inflight : \E d \in SyncAnswers(f) : \E w \in Delays(f) :
       Deliver(f, d, w) /\ BoundedSync'

SpecSync == InitRegistry /\ [][NextSync]_vars

\* Time passes without an event: Date.now() advances by a clock step.
ClockStep == 2

Pass ==
  /\ now' = now + ClockStep
  /\ UNCHANGED <<reqId, autoReconnect, enableTimeSync, isOpen, queuedRequests,
                 storedPromises, nameToId, idToName, timeDiff, timeReceived,
                 lastTimeRequest, haveSentQueuedReq, roundTripTimes,
                 senderTags, pendingSenderTags, ws, timers, sent, inflight,
                 outcome, settleCalls, evWait, tagCalls, thrown, closes,
                 disconnected, kindOf, queuedAt, lastCall, url>>

\* The re-sync: public requests on an open socket with time sync enabled,
\* issued at any moments, while the server answers every frame and the
\* round trips of the probes differ.
BoundedResync == now <= MaxResyncTime

NextResync ==
  \/ OnOpen /\ BoundedResync'
  \/ ws = "open" /\ Issued < MaxResyncReqs /\ RequestApiVersion
  \/ Pass /\ BoundedResync'
  \/ FairDeliver /\ BoundedResync'

SpecResync == InitRegistry /\ [][NextResync]_vars

\* The names: data-point requests on an open socket for nodes the directory
\* holds or lacks, and public directory listings.  The caller has disabled
\* time sync before the socket opens, so that no probe is under way; a
\* transport error sweeps the registry.
BoundedNames == reqId <= MaxNamesId

NameLists == {<<"a">>, <<"a", "b">>}

NextNames ==
  \/ ws = "connecting" /\ enableTimeSync /\ SetEnableTimeSync(FALSE)
  \/ ~enableTimeSync /\ OnOpen
  \/ ws = "open"
       /\ \E n \in NameLists : \E r \in TimeRanges :
            RequestDataPoints(n, r[1], r[2]) /\ BoundedNames'
  \/ ws = "open" /\ RequestLoggedNodes /\ BoundedNames'
  \/ ws = "open" /\ OnError
  \/ \E f \in inflight : \E d \in Answers(f) :
       Deliver(f, d, 0) /\ BoundedNames'

SpecNames == InitRegistry /\ [][NextNames]_vars

\* The transport error: it strikes while requests are queued, in flight or
\* waiting for sender tags, on a client with auto-reconnect.
BoundedError == reqId <= MaxErrorId

\* The caller has issued a request of the kind.
Asked(kind) == \E i \in DOMAIN kindOf : kindOf[i] = kind

\* The caller issues one request of a kind.
NextError ==
  \/ ws = "connecting" /\ enableTimeSync /\ SetEnableTimeSync(FALSE)
  \/ ~enableTimeSync /\ OnOpen
  \/ Live /\ ~Asked("api_version") /\ RequestApiVersion
  \/ ws = "open" /\ ~Asked("events")
       /\ RequestEvents(ValidQuery) /\ BoundedError'
  \/ ws = "open" /\ tagCalls = <<>>
       /\ \E x \in Senders : GetSenderTags(x) /\ BoundedError'
  \/ \E f \in inflight : \E d \in Answers(f) :
       Deliver(f, d, 0) /\ BoundedError'
  \/ OnError

SpecError == InitConn /\ [][NextError]_vars

\* The event queries, well-formed and malformed, issued at any moments while
\* the socket connects or is open; the server answers the probes.
BoundedMalformed == reqId <= MaxMalformedId /\ now <= MaxResyncTime

BadQuery == [valid |-> FALSE, startS |-> 2, endS |-> 4]

Queries == {ValidQuery, BadQuery}

NextMalformed ==
  \/ OnOpen /\ BoundedMalformed'
  \/ Live /\ \E q \in Queries : RequestEvents(q) /\ BoundedMalformed'
  \/ Live /\ \E q \in Queries : CountEvents(q) /\ BoundedMalformed'
  \/ Pass /\ BoundedMalformed'
  \/ \E f \in inflight : \E d \in FairAnswers(f) :
       f.kind = "time" /\ Deliver(f, d, FairDelay(f)) /\ BoundedMalformed'

SpecMalformed == InitRegistry /\ [][NextMalformed]_vars

\* The translation of times: one request of a kind that carries times, on an
\* open socket, before, during or after the sync cycle, or with time sync
\* disabled by the caller before the socket opens.  The server answers the
\* probes and the log-limits request.
BoundedTranslate == reqId <= MaxTranslateId /\ now <= MaxTime

NextTranslate ==
  \/ ws = "connecting" /\ enableTimeSync /\ SetEnableTimeSync(FALSE)
  \/ OnOpen /\ BoundedTranslate'
  \/ ws = "open" /\ ~Asked("events")
       /\ RequestEvents(ValidQuery) /\ BoundedTranslate'
  \/ ws = "open" /\ ~Asked("countEvents")
       /\ CountEvents(ValidQuery) /\ BoundedTranslate'
  \/ ws = "open" /\ ~Asked("log_limits")
       /\ RequestLogLimits /\ BoundedTranslate'
  \/ \E f \in inflight : \E d \in SyncAnswers(f) : \E w \in Delays(f) :
       /\ f.kind \in {"time", "log_limits"}
       /\ Deliver(f, d, w) /\ BoundedTranslate'

SpecTranslate == InitRegistry /\ [][NextTranslate]_vars

\* Time sync disabled: the caller disables time sync at any moment, before
\* the socket opens, during a sync cycle or after it, and issues a request at
\* any moment; the server answers every frame.
BoundedDisabled == now <= MaxDisabledTime

NextDisabled ==
  \/ Live /\ enableTimeSync /\ SetEnableTimeSync(FALSE)
  \/ OnOpen /\ BoundedDisabled'
  \/ (ws = "open" \/ ~enableTimeSync) /\ ~Asked("api_version")
       /\ RequestApiVersion
  \/ Pass /\ BoundedDisabled'
  \/ FairDeliver /\ BoundedDisabled'

SpecDisabled == InitRegistry /\ [][NextDisabled]_vars

\* The version check: requests issued while the socket connects or is open,
\* with time sync enabled or disabled by the caller; the server answers with
\* versions below, at and above the minimum, or with an error frame.
BoundedVersion == reqId <= MaxVersionId /\ now <= MaxTime

AllVersions == {<<2, 9>>, <<3, 0>>, <<4, 5>>}

VersionAnswers(f) ==
  IF f.kind = "api_version"
  THEN {[Response("api_version", f.requestId) EXCEPT !.version = v] :
          v \in AllVersions}
       \cup {[Response("error", f.requestId) EXCEPT !.errorMessage = "err"]}
  ELSE FairAnswers(f)

NextVersion ==
  \/ ws = "connecting" /\ enableTimeSync /\ SetEnableTimeSync(FALSE)
  \/ OnOpen /\ BoundedVersion'
  \/ Live /\ Issued < MaxFairReqs /\ RequestApiVersion /\ BoundedVersion'
  \/ \E f \in inflight : \E d \in VersionAnswers(f) :
       Deliver(f, d, FairDelay(f)) /\ BoundedVersion'

SpecVersion == InitRegistry /\ [][NextVersion]_vars

\* The ids: every operation that takes a RequestId (public requests, time
\* probes, sender-tag lookups), on a client with auto-reconnect whose
\* connection is lost and made again.
BoundedIds == reqId <= MaxIdsId

NextIds ==
  \/ OnOpen /\ BoundedIds'
  \/ Live /\ ~Asked("api_version") /\ RequestApiVersion /\ BoundedIds'
  \/ Live /\ ~Asked("events") /\ RequestEvents(ValidQuery) /\ BoundedIds'
  \/ ws = "open" /\ tagCalls = <<>>
       /\ \E x \in Senders : GetSenderTags(x) /\ BoundedIds'
  \/ closes < MaxCloses /\ ConnectionLost
  \/ ReconnectTimer
  \/ \E f \in inflight : \E d \in FairAnswers(f) :
       Deliver(f, d, FairDelay(f)) /\ BoundedIds'

SpecIds == InitConn /\ [][NextIds]_vars

\* The calls off line: every public operation that issues a request, called
\* while the socket connects, is open, or is down after an unwanted close
\* that a reconnect follows.
BoundedOffline == reqId <= MaxOfflineId /\ now <= MaxTime

NextOffline ==
  \/ RequestApiVersion /\ BoundedOffline'
  \/ RequestLoggedNodes /\ BoundedOffline'
  \/ RequestLogLimits /\ BoundedOffline'
  \/ \E r \in TimeRanges : RequestDataPoints(<<"a">>, r[1], r[2]) /\ BoundedOffline'
  \/ RequestEvents(ValidQuery) /\ BoundedOffline'
  \/ CountEvents(ValidQuery) /\ BoundedOffline'
  \/ tagCalls = <<>> /\ \E x \in Senders : GetSenderTags(x) /\ BoundedOffline'
  \/ OnOpen /\ BoundedOffline'
  \/ closes < MaxCloses /\ ConnectionLost
  \/ ReconnectTimer
  \/ \E f \in inflight : \E d \in FairAnswers(f) :
       f.kind = "time" /\ Deliver(f, d, FairDelay(f)) /\ BoundedOffline'

SpecOffline == InitConn /\ [][NextOffline]_vars

\* The repeated disconnect: the caller calls disconnect() at any moments,
\* any number of times, and issues requests before, between and after the
\* calls, on a client with auto-reconnect whose connection may be lost.
NextTwice ==
  \/ OnOpen /\ reqId < MaxTwiceId
  \/ reqId < MaxTwiceId /\ RequestApiVersion
  \/ Disconnect
  \/ closes < MaxCloses /\ ConnectionLost
  \/ Closed
  \/ ReconnectTimer
  \/ \E f \in inflight : \E d \in FairAnswers(f) :
       reqId < MaxTwiceId /\ Deliver(f, d, 0)

SpecTwice == InitConn /\ [][NextTwice]_vars

\* The probe before a request: requests of several kinds on an open socket
\* with time sync enabled, issued at any moments, before or after the 10
\* seconds since the last probe have run out; the server answers the probes
\* and the directory listings, and time passes between the exchanges.
\* The caller may issue another request on the open socket.
MayAsk == ws = "open" /\ Issued < MaxResyncReqs

\* The frames the server is about to answer.
Awaited == {f \in inflight : f.kind \in {"time", "logged_nodes"}}

NextProbe ==
  \/ OnOpen /\ BoundedResync'
  \/ MayAsk /\ RequestApiVersion
  \/ MayAsk /\ RequestLoggedNodes
  \/ MayAsk /\ RequestEvents(ValidQuery)
  \/ MayAsk /\ \E r \in TimeRanges : RequestDataPoints(<<"a">>, r[1], r[2])
  \/ Awaited = {} /\ Pass /\ BoundedResync'
  \/ \E f \in Awaited : \E d \in FairAnswers(f) :
       Deliver(f, d, FairDelay(f)) /\ BoundedResync'

SpecProbe == InitRegistry /\ [][NextProbe]_vars

\* The reconnect: the connection is lost again and again, on a client with
\* or without auto-reconnect; timers fire and connection attempts succeed
\* or fail.  The caller issues a request and may disconnect.
NextReconnect ==
  \/ Live /\ ~Asked("api_version") /\ RequestApiVersion
  \/ OnOpen
  \/ closes < MaxReconnects /\ ConnectionLost
  \/ Closed
  \/ ReconnectTimer
  \/ Disconnect
  \/ FairDeliver

FairReconnect ==
  Init /\ [][NextReconnect]_vars /\ WF_vars(ReconnectTimer) /\ WF_vars(Closed)

\* The transport: every event of the socket (open, error, close), the
\* reconnect timer and disconnect() in any order, on a client with or
\* without auto-reconnect; the caller issues a request.
NextTransport ==
  \/ Live /\ ~Asked("api_version") /\ RequestApiVersion
  \/ OnOpen
  \/ closes < MaxReconnects /\ OnError
  \/ closes < MaxReconnects /\ ConnectionLost
  \/ Closed
  \/ ReconnectTimer
  \/ Disconnect

SpecTransport == Init /\ [][NextTransport]_vars

\* The interrupted cycle: the caller disables time sync once, in the middle
\* of a cycle, enables it again and issues requests at any moments, while the
\* server answers every frame and the round trips of the probes differ.
BoundedReenable == now <= MaxReenableTime

DisabledOnce ==
  \E i \in DOMAIN outcome : outcome[i] = Rejected("Time sync disabled")

NextReenable ==
  \/ OnOpen /\ BoundedReenable'
  \/ enableTimeSync /\ roundTripTimes # EmptyMap /\ ~DisabledOnce
       /\ SetEnableTimeSync(FALSE)
  \/ ~enableTimeSync /\ SetEnableTimeSync(TRUE)
  \/ ws = "open" /\ Issued < MaxResyncReqs /\ RequestApiVersion
  \/ Awaited = {} /\ Pass /\ BoundedReenable'
  \/ FairDeliver /\ BoundedReenable'

SpecReenable == InitRegistry /\ [][NextReenable]_vars

\* The unmatched frames: besides the answers to the frames it has received,
\* the server sends responses and error frames of every kind whose RequestId
\* has no pending result in the registry: an id never allocated, the first
\* id already resolved (a duplicate) and the first id rejected by a sweep or
\* an error before the answer arrived (a late answer).
BoundedStray == reqId <= MaxStrayId

Kinds == {"time", "logged_nodes", "log_limits", "api_version", "node_values",
          "events", "countEvents", "sender_tags"}

Least(ids) == {i \in ids : \A j \in ids : i <= j}

StrayIds ==
  {reqId + 1}
    \cup Least({i \in DOMAIN outcome : outcome[i].st = "resolved"})
    \cup Least({i \in DOMAIN outcome : outcome[i].st = "rejected"})

Strays ==
  {d \in UNION {Answers(Frame(k, i, "A", 2, 4)) : k \in Kinds, i \in StrayIds} :
     /\ d.events \in {<<>>, <<Event("A")>>}
     /\ d.tags \in {"", "t1"}}

Stray(data) ==
  /\ ws = "open"
  /\ Becomes(ParseMessage(State, data))

NextStray ==
  \/ ws = "connecting" /\ enableTimeSync /\ SetEnableTimeSync(FALSE)
  \/ OnOpen
  \/ Live /\ ~Asked("log_limits") /\ RequestLogLimits
  \/ ws = "open" /\ ~Asked("events") /\ RequestEvents(ValidQuery)
       /\ BoundedStray'
  \/ \E f \in inflight : \E d \in FairAnswers(f) :
       Deliver(f, d, 0) /\ BoundedStray'
  \/ \E d \in Strays : Stray(d) /\ BoundedStray'

SpecStray == InitRegistry /\ [][NextStray]_vars

\* The data points: requests for node "a" over a valid, an empty and an
\* inverted time range, issued while the socket is connecting or open and
\* sync runs with any delays; the server answers the probes, the listings
\* and the data-point requests.
BoundedData == reqId <= MaxDataId /\ now <= MaxTime

DataRanges == {<<2, 4>>, <<3, 3>>, <<4, 2>>}

DataKinds == {"time", "logged_nodes", "node_values"}

DataIssued ==
  Cardinality({i \in DOMAIN kindOf : kindOf[i] = "node_values"})

NextData ==
  \/ OnOpen /\ BoundedData'
  \/ Live /\ DataIssued < MaxDataReqs
       /\ \E r \in DataRanges : RequestDataPoints(<<"a">>, r[1], r[2])
       /\ BoundedData'
  \/ \E f \in inflight : \E d \in FairAnswers(f) : \E w \in Delays(f) :
       /\ f.kind \in DataKinds
       /\ Deliver(f, d, w) /\ BoundedData'

SpecData == InitRegistry /\ [][NextData]_vars

\* The listings: a public directory listing and a data-point request on an
\* open socket without time sync, answered in any order with any listing,
\* while the server also sends listings whose RequestId has no pending
\* result.
ListingStrays == {d \in Strays : d.messageType = "logged_nodes"}

NextListing ==
  \/ ws = "connecting" /\ enableTimeSync /\ SetEnableTimeSync(FALSE)
  \/ ~enableTimeSync /\ OnOpen
  \/ ws = "open" /\ ~Asked("logged_nodes") /\ RequestLoggedNodes
  \/ ws = "open" /\ ~Asked("node_values")
       /\ \E n \in NameLists : RequestDataPoints(n, 2, 4)
  \/ \E f \in inflight : \E d \in Answers(f) : Deliver(f, d, 0)
  \/ \E d \in ListingStrays : Stray(d)

SpecListing == InitRegistry /\ [][NextListing]_vars

\* The idle caller: a directory listing requested at any moment, also long
\* after the last probe and while the socket is connecting or closed, on a
\* client that reconnects; the server answers every frame it receives.
NextIdle ==
  \/ OnOpen /\ BoundedResync'
  \/ ~Asked("logged_nodes") /\ RequestLoggedNodes
  \/ closes < MaxCloses /\ ConnectionLost
  \/ ReconnectTimer
  \/ Awaited = {} /\ Pass /\ BoundedResync'
  \/ FairDeliver /\ BoundedResync'

SpecIdle == InitConn /\ [][NextIdle]_vars

\* ------------------------------------------------------------------ claims
\* The steps in which the server's answer d to the frame f is handled.
Delivery(f, d) == f \notin inflight' /\ \E w \in Delays(f) : Deliver(f, d, w)

\* The handle registered under k is settled in the step.
SettledInStep(k) == settleCalls'[k] # settleCalls[k]

AtMostOnce == \A k \in DOMAIN settleCalls : settleCalls[k] <= 1

\* C1 (as claimed): a frame carrying RequestId i settles only the pending
\* result registered under i, and every pending result is settled at most
\* once, over any interleaving of responses, error frames and sweeps.
C1_NoCrossTalk ==
  /\ []AtMostOnce
  /\ [][\A k \in DOMAIN settleCalls :
          SettledInStep(k) =>
            \A f \in inflight : \A d \in Answers(f) :
              Delivery(f, d) => k = f.requestId]_vars

\* The data-point request k is rejected by the handling of the answer to f:
\* f is the directory listing requested to resolve the names of k, or f is
\* the time probe whose response flushes the queue, where k has endS < startS.
RejectedThrough(k, f) ==
  /\ kindOf[k] = "node_values"
  /\ outcome'[k].st = "rejected"
  /\ \/ /\ f.kind = "logged_nodes"
        /\ f.requestId \in DOMAIN storedPromises
        /\ storedPromises[f.requestId].forReq = k
     \/ /\ f.kind = "time"
        /\ ~haveSentQueuedReq /\ haveSentQueuedReq'
        /\ k \in DOMAIN queuedRequests
        /\ queuedRequests[k].endS < queuedRequests[k].startS

\* C1 (amended): a frame carrying RequestId i settles only the pending
\* result registered under i, except that it also rejects a data-point
\* request in two cases: it answers the directory listing requested for that
\* request, or it is the time response that flushes the queue and the queued
\* request has endS < startS.  Every pending result is settled at most once.
C1_Correlation ==
  /\ []AtMostOnce
  /\ [][\A k \in DOMAIN settleCalls :
          SettledInStep(k) =>
            \A f \in inflight : \A d \in Answers(f) :
              Delivery(f, d) => k = f.requestId \/ RejectedThrough(k, f)]_vars

\* C1 (witness): two requests are outstanding and the later one has been
\* answered first.
C1_Witness ==
  \E i, k \in DOMAIN outcome :
    /\ i < k
    /\ kindOf[i] = "api_version" /\ kindOf[k] = "api_version"
    /\ i \in DOMAIN storedPromises
    /\ \E f \in inflight : f.requestId = i
    /\ outcome[k].st = "resolved"

\* The frame of request i has been handed to the socket.
WasSent(i) == \E p \in DOMAIN sent : sent[p].frame.requestId = i

\* The result of the public request i is pending.
IsPending(i) ==
  i \in DOMAIN outcome /\ kindOf[i] # "time" /\ outcome[i].st = "pending"

\* C2: in a fair execution every request issued through a public operation
\* is eventually resolved or rejected: time and again no result is pending.
C2_EverySettles == []<>(\A i \in DOMAIN outcome : ~IsPending(i))

\* C3: the frames of the requests that were queued before the socket opened
\* are handed to the socket in the order in which the requests were issued
\* (ascending RequestId), for every mix of request kinds.
C3_QueueOrder ==
  \A p, q \in DOMAIN sent :
    (/\ p < q
     /\ sent[p].frame.requestId \in DOMAIN queuedAt
     /\ sent[q].frame.requestId \in DOMAIN queuedAt)
    => sent[p].frame.requestId < sent[q].frame.requestId

\* C4: in a fair execution a request queued while the connection is down
\* after an unwanted close is eventually sent.
C4_SentAfterReconnect ==
  []<>(\A i \in DOMAIN queuedAt : queuedAt[i] > 0 => WasSent(i))

\* C5: when the socket opens with time sync disabled, every queued request
\* whose result is pending leaves the queue and has its frame sent in the
\* handling of the open event.
C5_FlushOnOpen ==
  [][(OnOpen /\ ~enableTimeSync) =>
       \A i \in DOMAIN queuedRequests :
         outcome[i] = Pending => (i \notin DOMAIN queuedRequests' /\ WasSent(i)')]_vars

\* The step flushes the queue (_setTimeDiff at the end of the first cycle).
Flush == ~haveSentQueuedReq /\ haveSentQueuedReq'

\* C6: at the flush no queued request leaves the queue without its frame
\* sent, its pending result settled, or (a data-point request) the directory
\* listing requested that its send routine waits for.
C6_FlushDispatchesAll ==
  [][Flush =>
       \A i \in DOMAIN queuedRequests :
         \/ WasSent(i)'
         \/ outcome'[i].st # "pending"
         \/ \E j \in DOMAIN storedPromises' : storedPromises'[j].forReq = i]_vars

\* C7: after disconnect() no connection attempt is started and the client
\* is never open again.
C7_NoReconnectAfterDisconnect ==
  /\ [](disconnected => ~isOpen)
  /\ [][disconnected => ~(ws # "connecting" /\ ws' = "connecting")]_vars

\* The number of sender-tag lookups among the frames sq.
Lookups(sq) == Cardinality({p \in DOMAIN sq : sq[p].frame.kind = "sender_tags"})

\* The distinct senders of the events.
SendersOf(events) == {events[n].sender : n \in DOMAIN events}

\* C8: the handling of an event-query response sends exactly one sender-tag
\* lookup for every distinct sender of its events that is absent from the
\* cache, however many events share a sender.
C8_OneLookupPerSender ==
  [][\A f \in inflight : \A d \in Answers(f) :
       (d.messageType = "events" /\ Delivery(f, d)) =>
         Lookups(sent') - Lookups(sent)
           = Cardinality(SendersOf(d.events) \ DOMAIN senderTags)]_vars

OffsetSample(receivedAt, sentAt, timestamp) ==
  receivedAt - ((timestamp \div Nano) + ((receivedAt - sentAt) \div 2))

\* The step completes a sync cycle: the samples are discarded.
CycleCompletes == roundTripTimes # EmptyMap /\ roundTripTimes' = EmptyMap

\* C10: when a sync cycle completes, timeDiff is the offset sample paired
\* with the smallest round-trip time among the samples of the cycle (the
\* two recorded before and the one of the response that completes it), in
\* whatever order the samples arrived.
C10_MinRoundTrip ==
  [][\A f \in inflight : \A d \in SyncAnswers(f) : \A w \in Delays(f) :
       (d.messageType = "time" /\ Deliver(f, d, w) /\ CycleCompletes) =>
         LET sentAt == storedPromises[f.requestId].timeSent
             samples == With(roundTripTimes, now' - sentAt,
                             OffsetSample(now', sentAt, d.timestamp))
         IN  /\ Cardinality(DOMAIN samples) = NumSamples
             /\ \E m \in DOMAIN samples :
                  /\ \A r \in DOMAIN samples : m <= r
                  /\ timeDiff' = samples[m]]_vars

\* C10 (witness): a cycle has completed whose smallest round trip was
\* neither the first nor the last to arrive: the round trips were 4, 0 and 2
\* seconds, and timeDiff is the offset of the second sample (received at 4,
\* server's time 2).
C10_Witness ==
  /\ haveSentQueuedReq
  /\ roundTripTimes = EmptyMap
  /\ now = 6
  /\ timeReceived - lastTimeRequest = 2
  /\ timeDiff = 2

\* The time probes whose response has been handled, and the probes sent.
ProbesAnswered ==
  Cardinality({i \in DOMAIN outcome :
                 kindOf[i] = "time" /\ outcome[i].st = "resolved"})

ProbesSent == Cardinality({p \in DOMAIN sent : sent[p].frame.kind = "time"})

\* C11: the sync cycle that starts when the socket opens finishes on its
\* third probe response, whatever the round-trip times, equal ones included:
\* once three responses have been handled the samples are discarded, the
\* cycle is over (the queue has been flushed) and no fourth probe was sent.
C11_ThirdResponseCompletes ==
  ProbesAnswered >= NumSamples =>
    /\ roundTripTimes = EmptyMap
    /\ haveSentQueuedReq
    /\ ProbesSent = NumSamples

\* The step is a public request on an open socket with time sync enabled.
SyncedRequest == ws = "open" /\ enableTimeSync /\ RequestApiVersion

\* The step starts a sync cycle: it sends a probe.
StartsCycle == ProbesSent' > ProbesSent

\* The previous public request was issued no more than 10 seconds ago.
Shortly == lastCall # <<>> /\ now - lastCall[1].at <= ResyncInterval

FramesOf(sq, kind) == {p \in DOMAIN sq : sq[p].frame.kind = kind}

\* The data-point frames of request k among the frames sq.
DataFrames(sq, k) ==
  {p \in FramesOf(sq, "node_values") : sq[p].frame.requestId = k}

\* The error that names the node n.
NoSuchNode(n) == "Node with name " \o n \o " does not exist."

\* C13: requestDataPoints on an open socket, with a valid time range, for
\* names of which one is absent from the directory sends exactly one
\* directory-listing request and no data-point frame; when the response to
\* that listing still lacks one of the names, the data-point request is
\* rejected with an error that names a missing node, and no data-point frame
\* is sent for it, then or later.
C13_NameResolution ==
  /\ [][\A n \in NameLists : \A r \in TimeRanges :
          (/\ ws = "open" /\ ~(r[2] < r[1])
           /\ reqId' > reqId /\ inflight \subseteq inflight'
           /\ ~(Range(n) \subseteq DOMAIN nameToId)
           /\ RequestDataPoints(n, r[1], r[2])) =>
            /\ Cardinality(FramesOf(sent', "logged_nodes"))
                 = Cardinality(FramesOf(sent, "logged_nodes")) + 1
            /\ FramesOf(sent', "node_values") = FramesOf(sent, "node_values")]_vars
  /\ [][\A f \in inflight : \A d \in Answers(f) :
          (/\ d.messageType = "logged_nodes"
           /\ f.requestId \in DOMAIN storedPromises
           /\ storedPromises[f.requestId].forReq # NoReq
           /\ ~(Range(storedPromises[f.requestId].nodeNames) \subseteq DOMAIN d.dir)
           /\ Delivery(f, d)) =>
            LET h == storedPromises[f.requestId]
            IN  /\ \E n \in Range(h.nodeNames) \ DOMAIN d.dir :
                     outcome'[h.forReq] = Rejected(NoSuchNode(n))
                /\ DataFrames(sent', h.forReq) = {}]_vars
  /\ [](\A k \in DOMAIN outcome :
          (\E n \in {"a", "b"} : outcome[k] = Rejected(NoSuchNode(n)))
            => DataFrames(sent, k) = {})

\* C13 (witness): a request for the nodes a and b has been rejected naming
\* b, after a directory response that holds a.
C13_Witness ==
  \E k \in DOMAIN outcome :
    /\ kindOf[k] = "node_values"
    /\ outcome[k] = Rejected(NoSuchNode("b"))
    /\ "a" \in DOMAIN nameToId

\* The error the socket reports.
WsError == "WS error"

\* C14: the handling of a transport error rejects every pending result with
\* the error and leaves the registry empty, empties the queue, rejects every
\* waiter for sender tags (public calls and event queries) with the same
\* error and removes it, and leaves the auto-reconnect setting as it was.
C14_ErrorSweep ==
  [][OnError =>
       /\ \A i \in DOMAIN outcome :
            outcome[i].st = "pending" => outcome'[i] = Rejected(WsError)
       /\ storedPromises' = EmptyMap
       /\ queuedRequests' = EmptyMap
       /\ \A n \in DOMAIN tagCalls :
            tagCalls[n].st = "pending" => tagCalls'[n] = Rejected(WsError)
       /\ pendingSenderTags' = EmptyMap
       /\ autoReconnect' = autoReconnect]_vars

\* C14 (witness): a transport error has rejected a request that was queued,
\* an event query that waited for sender tags and a public lookup.
C14_Witness ==
  /\ ws = "closing"
  /\ \E k \in DOMAIN queuedAt : outcome[k] = Rejected(WsError)
  /\ \E i \in DOMAIN outcome :
       kindOf[i] = "events" /\ outcome[i] = Rejected(WsError)
  /\ \E n \in DOMAIN tagCalls : tagCalls[n] = Rejected(WsError)

\* C15: the close event of a socket the caller did not disconnect rejects
\* every pending result, of a request in flight or of a queued one.
C15_UnwantedCloseRejects ==
  [][(OnClose /\ ~disconnected) =>
       \A i \in DOMAIN outcome :
         outcome[i].st = "pending" => outcome'[i].st = "rejected"]_vars

\* The result of request k is as it was before the step.
Untouched(k) ==
  /\ outcome'[k] = outcome[k]
  /\ (k \in DOMAIN storedPromises) <=> (k \in DOMAIN storedPromises')

\* The error frame d for request i rejects the result of i with its message.
RejectsItsOwn(i, d) ==
  i \in DOMAIN storedPromises =>
    /\ outcome'[i] = Rejected(d.errorMessage)
    /\ i \notin DOMAIN storedPromises'

\* C16 (as claimed): an error frame for request i rejects the pending result
\* of i with the frame's errorMessage and leaves every other pending result
\* registered and unsettled.
C16_ErrorIsLocal ==
  [][\A f \in inflight : \A d \in Answers(f) :
       (d.messageType = "error" /\ Delivery(f, d)) =>
         /\ RejectsItsOwn(f.requestId, d)
         /\ \A k \in DOMAIN outcome \ {f.requestId} : Untouched(k)]_vars

\* C16 (amended): an error frame for request i rejects the pending result
\* of i with the frame's errorMessage and leaves every other pending result
\* registered and unsettled, except the data-point request for which the
\* client requested the directory listing i: it is rejected with the same
\* message.
C16_ErrorFrame ==
  [][\A f \in inflight : \A d \in Answers(f) :
       (d.messageType = "error" /\ Delivery(f, d)) =>
         /\ RejectsItsOwn(f.requestId, d)
         /\ \A k \in DOMAIN outcome \ {f.requestId} :
              \/ Untouched(k)
              \/ /\ f.requestId \in DOMAIN storedPromises
                 /\ storedPromises[f.requestId].forReq = k
                 /\ outcome'[k] = Rejected(d.errorMessage)
                 /\ k \notin DOMAIN storedPromises']_vars

\* C16 (witness): an error frame has rejected a request with its message
\* while a data-point request stays registered and pending.
C16_Witness ==
  \E i, k \in DOMAIN outcome :
    /\ i # k
    /\ outcome[i] = Rejected("err")
    /\ kindOf[k] = "node_values"
    /\ k \in DOMAIN storedPromises
    /\ outcome[k] = Pending

\* C17: setEnableTimeSync(false) rejects with "Time sync disabled" the
\* pending results of the time probes in flight, and only those: the
\* pending result of every other request stays registered and unsettled.
C17_DisableRejectsProbesOnly ==
  [][SetEnableTimeSync(FALSE) =>
       \A i \in DOMAIN outcome :
         IF kindOf[i] = "time"
         THEN i \in DOMAIN storedPromises =>
                outcome'[i] = Rejected("Time sync disabled")
         ELSE Untouched(i)]_vars

\* The step is a call of requestEvents or countEvents with a malformed query.
MalformedCall == RequestEvents(BadQuery) \/ CountEvents(BadQuery)

\* C18: a call of requestEvents or countEvents with a malformed query
\* throws, hands no frame to the socket and creates no pending result and no
\* queued descriptor.
C18_NothingSent ==
  [][MalformedCall =>
       /\ thrown'
       /\ sent' = sent
       /\ DOMAIN outcome' = DOMAIN outcome
       /\ storedPromises' = storedPromises
       /\ queuedRequests' = queuedRequests]_vars

\* The step is an event query on an open socket with time sync enabled.
SyncedEventQuery ==
  ws = "open" /\ enableTimeSync
    /\ (RequestEvents(ValidQuery) \/ CountEvents(ValidQuery))

\* C19: with time sync enabled, the frame of an event query (requestEvents
\* or countEvents) carries the query's time range translated into the
\* server's time: timeRangeBegin - timeDiff and timeRangeEnd - timeDiff.
C19_EventTimesTranslated ==
  [][SyncedEventQuery =>
       \A p \in DOMAIN sent' \ DOMAIN sent :
         sent'[p].frame.kind \in {"events", "countEvents"} =>
           /\ sent'[p].frame.criterionMin = ValidQuery.startS - timeDiff
           /\ sent'[p].frame.criterionMax = ValidQuery.endS - timeDiff]_vars

\* C20: a log-limits response with the server's values (min, max) resolves
\* requestLogLimits with (min + timeDiff, max + timeDiff) when time sync is
\* enabled and with (min, max) when it is disabled.
C20_LimitsTranslated ==
  [][\A f \in inflight : \A d \in SyncAnswers(f) :
       (/\ d.messageType = "log_limits"
        /\ f.requestId \in DOMAIN storedPromises
        /\ Delivery(f, d)) =>
         outcome'[f.requestId] =
           Resolved(IF enableTimeSync
                    THEN <<d.criterionMin + timeDiff, d.criterionMax + timeDiff>>
                    ELSE <<d.criterionMin, d.criterionMax>>)]_vars

\* C20 (witness): with time sync enabled and an offset of 2 seconds, the
\* server's limits (1, 5) have resolved requestLogLimits with (3, 7).
C20_Witness ==
  /\ enableTimeSync
  /\ timeDiff = 2
  /\ \E i \in DOMAIN outcome :
       kindOf[i] = "log_limits" /\ outcome[i] = Resolved(<<3, 7>>)

\* The time probes registered so far.
Probes(kinds) == {i \in DOMAIN kinds : kinds[i] = "time"}

\* C21: while time sync is disabled no sync cycle runs: no public request,
\* open event or incoming frame sends a time probe, takes a RequestId for
\* one (every id taken is that of a public request) or changes timeDiff.
C21_NoCycleWhileDisabled ==
  [][~enableTimeSync =>
       /\ ProbesSent' = ProbesSent
       /\ Probes(kindOf') = Probes(kindOf)
       /\ reqId' - reqId = Cardinality(DOMAIN kindOf' \ DOMAIN kindOf)
       /\ timeDiff' = timeDiff]_vars

\* C21 (witness): with time sync disabled and the socket open, a request
\* has been issued more than 10 seconds after the last probe, and its frame
\* is the last one sent.
C21_Witness ==
  /\ ~enableTimeSync
  /\ ws = "open"
  /\ ProbesSent > 0
  /\ now > lastTimeRequest + ResyncInterval
  /\ lastCall = <<[at |-> now, cycle |-> FALSE]>>
  /\ sent[Len(sent)].frame.kind = "api_version"

\* The version v is below the version w (major, minor).
Older(v, w) == v[1] < w[1] \/ (v[1] = w[1] /\ v[2] < w[2])

\* C22: a version response whose version is below 3.0 rejects the pending
\* version-check request; a version response of 3.0 or above resolves it
\* with the version of the response.
C22_VersionCheck ==
  [][\A f \in inflight : \A d \in VersionAnswers(f) :
       (/\ d.messageType = "api_version"
        /\ f.requestId \in DOMAIN storedPromises
        /\ Delivery(f, d)) =>
         IF Older(d.version, <<3, 0>>)
         THEN outcome'[f.requestId].st = "rejected"
         ELSE outcome'[f.requestId] = Resolved(d.version)]_vars

\* C22 (witness): one version check has been rejected and another has been
\* resolved with its version, 3.0 or 4.5.
C22_Witness ==
  \E i, j \in DOMAIN outcome :
    /\ kindOf[i] = "api_version" /\ outcome[i].st = "rejected"
    /\ outcome[i].by = "CDP version needs to be 4.3 or newer."
    /\ kindOf[j] = "api_version"
    /\ outcome[j] \in {Resolved(<<3, 0>>), Resolved(<<4, 5>>)}

\* The RequestIds of the frames sq.
IdsOf(sq) == {sq[p].frame.requestId : p \in DOMAIN sq}

\* The ids taken in the step.
TakenInStep == (reqId + 1)..reqId'

\* C23: RequestIds are unique and strictly increasing over the lifetime of
\* the client and are not reset by a reconnect: every id taken (by a public
\* request, a time probe or a sender-tag lookup) is greater than all earlier
\* ones, no two frames sent carry the same id, and no id is taken again
\* while a response to it is outstanding.
C23_IdsIncrease ==
  /\ [](\A p, q \in DOMAIN sent :
          p # q => sent[p].frame.requestId # sent[q].frame.requestId)
  /\ [](\A i \in DOMAIN kindOf \cup IdsOf(sent) : i <= reqId)
  /\ [][/\ reqId' >= reqId
        /\ DOMAIN kindOf' \ DOMAIN kindOf \subseteq TakenInStep
        /\ \A p \in DOMAIN sent' \ DOMAIN sent :
             sent'[p].frame.kind \in {"time", "sender_tags"}
               => sent'[p].frame.requestId \in TakenInStep
        /\ \A i \in TakenInStep :
             /\ i \notin DOMAIN storedPromises
             /\ \A f \in inflight : f.requestId # i]_vars

\* C23 (witness): after a close and a reconnect, a time probe and a
\* sender-tag lookup sent on the new connection are outstanding, with ids
\* greater than that of a frame sent earlier.
C23_Witness ==
  /\ closes > 0
  /\ \E f, g \in inflight :
       /\ f.kind = "time"
       /\ g.kind = "sender_tags"
       /\ \E p \in DOMAIN sent :
            /\ sent[p].frame \notin inflight
            /\ sent[p].frame.requestId < f.requestId
            /\ sent[p].frame.requestId < g.requestId

\* The step is a call of a public operation that issues a request.
PublicCall ==
  \/ RequestApiVersion
  \/ RequestLoggedNodes
  \/ RequestLogLimits
  \/ \E r \in TimeRanges : RequestDataPoints(<<"a">>, r[1], r[2])
  \/ RequestEvents(ValidQuery)
  \/ CountEvents(ValidQuery)
  \/ \E x \in Senders : GetSenderTags(x)

\* C24: every public operation that issues a request (version check,
\* directory listing, log limits, data points, event query, event count,
\* sender-tag fetch), called while the connection is not open, hands no
\* frame to the socket and stores a queued descriptor under the id it took.
C24_QueuedWhenNotOpen ==
  [][(~isOpen /\ PublicCall) =>
       /\ sent' = sent
       /\ reqId' > reqId
       /\ reqId' \in DOMAIN queuedRequests']_vars

\* C25: with time sync enabled, a public request issued after the socket
\* has opened but before the first sync cycle has completed is queued, not
\* sent: the call hands no frame to the socket and stores a queued
\* descriptor under its id.
C25_QueuedUntilSynced ==
  [][(isOpen /\ enableTimeSync /\ ~haveSentQueuedReq /\ RequestLogLimits) =>
       /\ sent' = sent
       /\ reqId' \in DOMAIN queuedRequests']_vars

\* C26: when a transport error strikes while a sender-tag lookup issued for
\* an event query is pending, the event query is not rejected: it resolves
\* with its events, those of the senders whose lookup failed carrying no
\* tags.
C26_LookupFailureDegrades ==
  [][OnError =>
       \A i \in DOMAIN evWait :
         /\ outcome'[i].st = "resolved"
         /\ DOMAIN outcome'[i].val = DOMAIN evWait[i].events
         /\ \A n \in DOMAIN evWait[i].events :
              /\ outcome'[i].val[n].sender = evWait[i].events[n].sender
              /\ evWait[i].events[n].sender \in evWait[i].missing
                   => outcome'[i].val[n].tags = NoTags]_vars

\* The public callers among the waiters for the tags of sender x.
PublicWaiters(x) ==
  {pendingSenderTags[x][n].n :
     n \in {m \in DOMAIN pendingSenderTags[x] :
              pendingSenderTags[x][m].type = "pub"}}

\* C27: getSenderTags calls for the same uncached sender share one lookup
\* in flight: the first call sends one request, a call made while the lookup
\* is pending sends none and joins the waiters, and the response resolves
\* every waiter with its tags, stores them in the cache and removes the
\* sender's entry of pendingSenderTags.
C27_SharedLookup ==
  /\ [][\A x \in Senders :
          (/\ Len(tagCalls') > Len(tagCalls)
           /\ x \notin DOMAIN senderTags
           /\ GetSenderTags(x)) =>
            IF x \in DOMAIN pendingSenderTags
            THEN /\ sent' = sent
                 /\ Len(pendingSenderTags'[x]) = Len(pendingSenderTags[x]) + 1
            ELSE /\ Len(sent') = Len(sent) + 1
                 /\ sent'[Len(sent')].frame.kind = "sender_tags"
                 /\ sent'[Len(sent')].frame.sender = x
                 /\ Len(pendingSenderTags'[x]) = 1]_vars
  /\ [][\A f \in inflight : \A d \in Answers(f) :
          (/\ d.messageType = "sender_tags"
           /\ d.sender \in DOMAIN pendingSenderTags
           /\ Delivery(f, d)) =>
            /\ \A n \in PublicWaiters(d.sender) : tagCalls'[n] = Resolved(d.tags)
            /\ senderTags'[d.sender] = d.tags
            /\ d.sender \notin DOMAIN pendingSenderTags']_vars

\* C27 (witness): two public calls for the same sender wait for the
\* response to the one lookup that was sent.
C27_Witness ==
  \E x \in DOMAIN pendingSenderTags :
    /\ PublicWaiters(x) = {1, 2}
    /\ tagCalls = <<Pending, Pending>>
    /\ Lookups(sent) = 1
    /\ \E f \in inflight : f.kind = "sender_tags" /\ f.sender = x

\* The state disconnect() leaves behind: auto-reconnect disabled, not open,
\* the registry and the queue empty.
Disconnected(auto, open, stored, queued, socket) ==
  /\ ~auto
  /\ ~open
  /\ stored = EmptyMap
  /\ queued = EmptyMap
  /\ socket \in {"closing", "closed"}

\* C28: disconnect() is idempotent: a call after the first does not throw,
\* leaves auto-reconnect disabled, the client not open and the registry and
\* the queue empty, and sets no reconnect timer; called in the state the
\* first call left, it changes nothing.  No close event after a disconnect
\* sets a timer.
C28_DisconnectTwice ==
  /\ [][(disconnected /\ Disconnect) =>
          /\ ~thrown'
          /\ Disconnected(autoReconnect', isOpen', storedPromises',
                          queuedRequests', ws')
          /\ timers' = timers
          /\ Disconnected(autoReconnect, isOpen, storedPromises,
                          queuedRequests, ws)
               => /\ ws' = ws
                  /\ outcome' = outcome
                  /\ settleCalls' = settleCalls
                  /\ sent' = sent
                  /\ reqId' = reqId]_vars
  /\ [][disconnected => timers' <= timers]_vars

\* C28 (witness): the second disconnect() has acted: a request issued after
\* the first call (it was queued after the socket had opened, with no close
\* event so far) has been rejected by the second.
C28_Witness ==
  /\ disconnected
  /\ closes = 0
  /\ ws = "closing"
  /\ \E p \in DOMAIN sent : sent[p].open
  /\ \E k \in DOMAIN queuedAt :
       /\ \E p \in DOMAIN sent : sent[p].frame.requestId < k
       /\ outcome[k] = Rejected("Connection was closed")
  /\ Disconnected(autoReconnect, isOpen, storedPromises, queuedRequests, ws)

\* More than 10 seconds have passed since the last probe, on an open socket
\* with time sync enabled.
ProbeDue ==
  ws = "open" /\ enableTimeSync /\ now > lastTimeRequest + ResyncInterval

\* The step hands two frames to the socket: a time probe carrying the next
\* RequestId, then a frame of the kind carrying the id after it; the probe's
\* result is pending after the step.
ProbeThenFrame(kind) ==
  LET n == reqId + 1
      k == Len(sent)
  IN  /\ Len(sent') = k + 2
      /\ sent'[k + 1].frame.kind = "time"
      /\ sent'[k + 1].frame.requestId = n
      /\ sent'[k + 2].frame.kind = kind
      /\ sent'[k + 2].frame.requestId = n + 1
      /\ n \in DOMAIN storedPromises'
      /\ outcome'[n] = Pending

\* The step hands two frames to the socket: a time probe carrying the next
\* RequestId n, then a directory-listing request carrying n + 2; the
\* data-point request that took n + 1 is registered and has sent no frame.
ProbeThenListing ==
  LET n == reqId + 1
      k == Len(sent)
  IN  /\ Len(sent') = k + 2
      /\ sent'[k + 1].frame.kind = "time"
      /\ sent'[k + 1].frame.requestId = n
      /\ sent'[k + 2].frame.kind = "logged_nodes"
      /\ sent'[k + 2].frame.requestId = n + 2
      /\ outcome'[n] = Pending
      /\ outcome'[n + 1] = Pending
      /\ kindOf'[n + 1] = "node_values"

\* The step is a public request other than a data-point request, of a kind.
SimpleCall(kind) ==
  CASE kind = "api_version" -> RequestApiVersion
    [] kind = "logged_nodes" -> RequestLoggedNodes
    [] kind = "events" -> RequestEvents(ValidQuery)

SimpleKinds == {"api_version", "logged_nodes", "events"}

\* The step is a data-point request with a valid time range.
ValidDataCall ==
  \E r \in TimeRanges : ~(r[2] < r[1]) /\ RequestDataPoints(<<"a">>, r[1], r[2])

Swept ==
  /\ \A i \in DOMAIN outcome :
       outcome[i].st = "pending" => outcome'[i] = Rejected("Connection was closed")
  /\ storedPromises' = EmptyMap
  /\ queuedRequests' = EmptyMap
  /\ pendingSenderTags' = EmptyMap

\* C30: after every close that the caller did not request, with
\* auto-reconnect enabled, a timer is set and a connection attempt to the
\* original address is eventually started, however many closes came before;
\* with auto-reconnect disabled no timer is set and the sweep runs instead.
\* A connection attempt is started by a timer only.
C30_ReconnectsForever ==
  /\ [][(OnClose /\ ~disconnected) =>
          IF autoReconnect
          THEN timers' = timers + 1
          ELSE timers' = timers /\ Swept]_vars
  /\ [][(ws # "connecting" /\ ws' = "connecting") =>
          /\ timers > 0 /\ timers' = timers - 1
          /\ url' = Endpoint]_vars
  /\ \A n \in 1..MaxReconnects :
       (closes = n /\ ws = "closed" /\ timers > 0)
         ~> (closes = n /\ ws = "connecting")

\* C30 (witness): after the last of the closes a connection attempt is
\* under way.
C30_Witness ==
  /\ closes = MaxReconnects
  /\ ~disconnected
  /\ autoReconnect
  /\ ws = "connecting"
  /\ timers = 0
  /\ url = Endpoint

\* C31: a client has at most one transport that is not closed and at most
\* one pending reconnect timer, over any sequence of open, error, close,
\* timer and disconnect events: a new socket is created by a timer only and
\* only when the socket before it has closed, and a timer is pending only
\* while the socket is closed.
C31_OneTransport ==
  /\ [](timers <= 1)
  /\ [](timers = 1 => ws = "closed")
  /\ [][ReconnectTimer => ws = "closed" /\ ws' = "connecting"]_vars
  /\ [][(ws' = "connecting" /\ ws # "connecting") => ReconnectTimer]_vars

\* C31 (witness): after a transport error and two closes, the second
\* reconnect timer is pending and the socket is closed.
C31_Witness ==
  /\ closes = MaxReconnects
  /\ timers = 1
  /\ ws = "closed"
  /\ \E i \in DOMAIN outcome : outcome[i] = Rejected(WsError)

\* The probes that time sync's disabling has rejected, and the probes
\* answered after the last of them.
ProbesDisabled ==
  {i \in DOMAIN outcome :
     kindOf[i] = "time" /\ outcome[i] = Rejected("Time sync disabled")}

SamplesSinceDisabled ==
  {i \in DOMAIN outcome' :
     /\ kindOf'[i] = "time"
     /\ outcome'[i].st = "resolved"
     /\ \A j \in ProbesDisabled : i > j}

\* C32: after sync is disabled in the middle of a cycle and enabled again,
\* the interrupted cycle does not resume: the cycle that completes next has
\* collected 3 samples of probes answered after the disabling.
C32_InterruptedCycleDiscarded ==
  [][(ProbesDisabled # {} /\ CycleCompletes) =>
       Cardinality(SamplesSinceDisabled) >= NumSamples]_vars

Dropped ==
  /\ outcome' = outcome
  /\ settleCalls' = settleCalls
  /\ tagCalls' = tagCalls
  /\ evWait' = evWait
  /\ storedPromises' = storedPromises
  /\ pendingSenderTags' = pendingSenderTags
  /\ queuedRequests' = queuedRequests
  /\ ~thrown'

\* C34 (as claimed): a response or error frame whose RequestId has no
\* pending result in the registry is dropped, whatever its kind: no promise
\* is settled, nothing is thrown, and the registry and the request queue are
\* unchanged.
C34_UnmatchedDropped ==
  [][Dropped \/ \A d \in Strays : ~Stray(d)]_vars

\* C34 (amended): the same for every frame but a sender-tags response, which
\* is matched by its sender and not by its RequestId: a sender-tags response
\* is dropped in this sense when no lookup of its sender is pending.
C34_UnmatchedDroppedBySender ==
  [][Dropped \/ \A d \in Strays :
                  Stray(d) => /\ d.messageType = "sender_tags"
                              /\ d.sender \in DOMAIN pendingSenderTags]_vars

\* C34 (witness): the server has sent an event batch that no one asked for
\* (the lookup of its sender has gone out) while a queued request is pending:
\* it is still queued and pending.
C34_Witness ==
  /\ ~Asked("events")
  /\ \E p \in DOMAIN sent : sent[p].frame.kind = "sender_tags"
  /\ queuedRequests # EmptyMap
  /\ \A i \in DOMAIN queuedRequests : IsPending(i)

\* The frames the step hands to the socket.
NewFrames == {sent'[p].frame : p \in DOMAIN sent' \ DOMAIN sent}

\* C35: time translation of data points is a round trip.  With sync
\* enabled, a data-point request for the range startS..endS is sent with
\* criterionMin = startS - timeDiff and criterionMax = endS - timeDiff; every
\* timestamp c of the response is returned as c + timeDiff; so when the
\* offset is the one the request was sent with, a server timestamp equal to
\* the sent criterionMin comes back as the caller's startS.
C35_RoundTrip ==
  /\ [][\A g \in NewFrames :
          (g.kind = "node_values" /\ enableTimeSync') =>
            LET h == storedPromises'[g.requestId]
            IN  /\ g.criterionMin = h.startS - timeDiff'
                /\ g.criterionMax = h.endS - timeDiff']_vars
  /\ [][\A f \in inflight : \A d \in Answers(f) :
          (/\ f.kind = "node_values"
           /\ d.messageType = "node_values"
           /\ f.requestId \in DOMAIN storedPromises
           /\ enableTimeSync
           /\ Delivery(f, d)) =>
            LET h == storedPromises[f.requestId]
                v == outcome'[f.requestId]
            IN  /\ v = Resolved([k \in DOMAIN d.criterion |->
                                   d.criterion[k] + timeDiff])
                /\ f.criterionMin = h.startS - timeDiff =>
                     v.val = <<h.startS>>]_vars

\* C35 (witness): a data-point request from 2 seconds on was sent with a
\* non-zero offset as criterionMin = 2 - timeDiff, and the server's
\* timestamp equal to that bound has been returned to the caller as 2.
C35_Witness ==
  /\ enableTimeSync
  /\ timeDiff # 0
  /\ \E p \in DOMAIN sent :
       LET g == sent[p].frame
       IN  /\ g.kind = "node_values"
           /\ g.criterionMin = 2 - timeDiff
           /\ g.requestId \in DOMAIN outcome
           /\ outcome[g.requestId] = Resolved(<<2>>)

\* The directory holds exactly the entries of the listing dir.
Replaced(dir) ==
  /\ DOMAIN nameToId' = DOMAIN dir
  /\ \A n \in DOMAIN dir : nameToId'[n] = dir[n]
  /\ DOMAIN idToName' = {dir[n] : n \in DOMAIN dir}
  /\ \A n \in DOMAIN dir : idToName'[dir[n]] = n

\* C36: each directory-listing response replaces the directory: afterwards
\* the name-to-id map holds exactly the entries of the response and the
\* id-to-name map exactly their inverses, whatever the directory held
\* before, for the response to a pending listing request and for a response
\* whose RequestId has no pending result alike.
C36_DirectoryReplaced ==
  /\ [][\A f \in inflight \ inflight' : \A d \in Answers(f) :
          (d.messageType = "logged_nodes" /\ ~Replaced(d.dir)) =>
            ~Delivery(f, d)]_vars
  /\ [][\A d \in ListingStrays : ~Replaced(d.dir) => ~Stray(d)]_vars

\* C36 (witness): the one listing request was answered with node "a", and
\* an empty listing that answers no pending request arrived afterwards: the
\* directory is empty.
C36_Witness ==
  /\ ~Asked("node_values")
  /\ nameToId = EmptyMap
  /\ idToName = EmptyMap
  /\ \E i \in DOMAIN outcome :
       kindOf[i] = "logged_nodes" /\ outcome[i] = Resolved({"a"})

\* The last probe is more than 10 seconds old and sync is enabled.
Overdue == enableTimeSync /\ now > lastTimeRequest + ResyncInterval

\* C37: no frame is handed to the transport while the connection is not
\* open, and no public call throws; in particular a directory listing
\* requested while the connection is not open and more than 10 seconds after
\* the last probe sends nothing, returns normally and leaves its promise
\* pending.
C37_NoSendUnlessOpen ==
  /\ [](\A p \in DOMAIN sent : sent[p].open)
  /\ [](~thrown)
  /\ [][(~isOpen /\ Overdue /\ RequestLoggedNodes) =>
          /\ sent' = sent
          /\ ~thrown'
          /\ reqId' \in DOMAIN storedPromises']_vars

\* C38: every RequestId in the request queue has a pending result in the
\* registry: no operation settles or removes a pending result and leaves
\* its queued descriptor to be sent later.
C38_QueuedArePending ==
  \A i \in DOMAIN queuedRequests :
    i \in DOMAIN storedPromises /\ IsPending(i)

\* The time probes whose response is awaited.
ProbesAwaited ==
  {i \in DOMAIN storedPromises : storedPromises[i].kind = "time"}

\* C39: at most one time probe is outstanding at any time: a probe is
\* started only when the response to no other probe is awaited; and the
\* samples are those of one connection: when a socket opens, no sample of
\* an earlier connection is held.
C39_OneProbeOutstanding ==
  /\ [](Cardinality(ProbesAwaited) <= 1)
  /\ [][OnOpen => roundTripTimes = EmptyMap]_vars

\* The data-point request that the step registers.
NewDataRequest ==
  CHOOSE i \in DOMAIN kindOf' \ DOMAIN kindOf : kindOf'[i] = "node_values"

\* The kinds of the frames the step hands to the socket.
NewKinds == {g.kind : g \in NewFrames}

\* C40: requestDataPoints on an open socket with endS < startS rejects its
\* promise with an InvalidRequestError and sends neither a data-point
\* request nor a directory listing; with endS = startS the request is
\* accepted and goes on to name resolution: its data-point frame is sent
\* when the directory holds the name, and a directory listing otherwise.
\* No data-point frame is ever sent for an inverted range.
C40_InvertedRangeRejected ==
  /\ [](\A p \in FramesOf(sent, "node_values") :
          ~(sent[p].frame.criterionMax < sent[p].frame.criterionMin))
  /\ [][\A r \in DataRanges :
          (isOpen /\ RequestDataPoints(<<"a">>, r[1], r[2])) =>
            IF r[2] < r[1]
            THEN /\ outcome'[NewDataRequest] = Rejected("InvalidRequestError")
                 /\ NewDataRequest \notin DOMAIN storedPromises'
                 /\ NewKinds \cap {"node_values", "logged_nodes"} = {}
            ELSE /\ outcome'[NewDataRequest] = Pending
                 /\ NewDataRequest \in DOMAIN storedPromises'
                 /\ IF "a" \in DOMAIN nameToId
                    THEN /\ "logged_nodes" \notin NewKinds
                         /\ \E g \in NewFrames :
                              /\ g.kind = "node_values"
                              /\ g.requestId = NewDataRequest
                    ELSE /\ "node_values" \notin NewKinds
                         /\ "logged_nodes" \in NewKinds]_vars

\* C40 (witness): a request with an inverted range has been rejected with
\* an InvalidRequestError, and a request with endS = startS has had its
\* frame sent, with equal bounds, and answered.
C40_Witness ==
  /\ \E i \in DOMAIN outcome :
       kindOf[i] = "node_values" /\ outcome[i] = Rejected("InvalidRequestError")
  /\ \E p \in FramesOf(sent, "node_values") :
       /\ sent[p].frame.criterionMin = sent[p].frame.criterionMax
       /\ outcome[sent[p].frame.requestId].st = "resolved"

====
